---- MODULE Spec2Model ----
(***************************************************************************)
(* The MCP tool orchestration engine of backend/src/agentic_app/mcp:       *)
(* the registry of connectors, the connectors' execute, the three          *)
(* dispatch strategies with their per-call timeout, and the aggregation.   *)
(*                                                                         *)
(* Time is logical: one tick is one second.  A step of the engine or of a  *)
(* connector that does not await takes no time; time passes only while a   *)
(* call sleeps in its rate limiter or waits for its provider.              *)
(***************************************************************************)
EXTENDS Integers, Sequences, FiniteSets, TLC

(***************************************************************************)
(* Bounds of the model.                                                    *)
(***************************************************************************)
\* longest tool list of an orchestration request
MaxTools == 3

(***************************************************************************)
(* Values of the program.                                                  *)
(***************************************************************************)
\* models.py ToolStatus
ToolStatus == {"available", "busy", "error", "unavailable"}

\* the connectors of mcp/connectors, by ToolInfo.id
BuiltIn == {"gemini", "figma", "openai", "github", "cursor"}

\* a connector registered through register_custom_tool: a BaseConnector
\* subclass whose execute is not one of the built-in ones
Custom == {"custom"}

\* ToolInfo.rate_limit of each connector (requests per minute); 0 is None
rate_limit == [t \in BuiltIn \cup Custom |->
                 CASE t = "gemini" -> 60
                   [] t = "figma"  -> 100
                   [] t = "openai" -> 60
                   [] t = "github" -> 5000
                   [] t = "cursor" -> 100
                   [] OTHER        -> 0]

\* the value of an Optional cost that is None
NoCost == -1

\* ToolInfo.cost_per_request in thousandths of a dollar
cost_per_request == [t \in BuiltIn \cup Custom |->
                       CASE t = "gemini" -> 1
                         [] t = "figma"  -> 0
                         [] t = "openai" -> 2
                         [] t = "github" -> 0
                         [] t = "cursor" -> 1
                         [] OTHER        -> NoCost]

\* `x or 0.0` on an Optional[float]
OrZero(x) == IF x = NoCost THEN 0 ELSE x

\* an empty dict
EmptyMap == [k \in {} |-> k]

\* an error_message that is None
NoMessage == [text |-> "None", arg |-> 0]

\* a min_interval cut down to whole ticks
MinIntervalCut(t) == IF rate_limit[t] = 0 THEN 0 ELSE 60 \div rate_limit[t]

\* min_interval of _apply_rate_limit, 60.0 / rate_limit, in whole ticks
MinInterval(t) == IF rate_limit[t] = 0 THEN 0
                  ELSE (60 + rate_limit[t] - 1) \div rate_limit[t]

(***************************************************************************)
(* validate_input of each connector.  An input_data is a map from field    *)
(* names to the kind of value the field holds.                             *)
(***************************************************************************)
ValidateInput(t, d) ==
    CASE t \in {"gemini", "cursor"} -> "prompt" \in DOMAIN d /\ d["prompt"] = "str"
      [] t \in {"figma", "github"}  -> "action" \in DOMAIN d
      [] t = "openai"               -> "messages" \in DOMAIN d /\ d["messages"] = "list"
      [] OTHER                      -> TRUE

\* dict.get(key, default)
Get(map, key, default) == IF key \in DOMAIN map THEN map[key] ELSE default

\* the actions the if/elif chain of execute knows; any other raises ValueError
\* before the request is sent
SupportedAction(t, d) ==
    CASE t = "figma"  -> Get(d, "action", "get_file") \in
                           {"get_file", "get_images", "get_comments"}
      [] t = "github" -> Get(d, "action", "search_repositories") \in
                           {"search_repositories", "get_repository",
                            "get_file_contents", "get_issues"}
      [] OTHER        -> TRUE

(***************************************************************************)
(* ToolResponses.                                                          *)
(***************************************************************************)
\* str(error) and type(error).__name__ of the faults a built-in execute meets
FaultText(fault) ==
    CASE fault = "invalid_input"      -> "Invalid input data"
      [] fault = "unsupported_action" -> "Unsupported action"
      [] fault = "network_error"      -> "All connection attempts failed"
      [] fault = "http_error"         -> "Client error for url"
      [] OTHER                        -> "malformed payload"

FaultType(fault) ==
    CASE fault \in {"invalid_input", "unsupported_action"} -> "ValueError"
      [] fault = "network_error"                           -> "ConnectError"
      [] fault = "http_error"                              -> "HTTPStatusError"
      [] OTHER                                             -> "KeyError"

\* an error handler that leaves error_message unset
HandleErrorNoMessage(t, fault) ==
    [tool_id        |-> t,
     success        |-> FALSE,
     output_data    |-> EmptyMap,
     error_message  |-> NoMessage,
     execution_time |-> 0,
     cost           |-> OrZero(cost_per_request[t]),
     metadata       |-> [error_type |-> FaultType(fault)]]

\* BaseConnector._handle_error: the response it returns (it also sets the
\* connector's status to ERROR, see Proceed and ProviderReturn)
HandleError(t, fault) ==
    [tool_id        |-> t,
     success        |-> FALSE,
     output_data    |-> EmptyMap,
     error_message  |-> [text |-> FaultText(fault), arg |-> 0],
     execution_time |-> 0,
     cost           |-> OrZero(cost_per_request[t]),
     metadata       |-> [error_type |-> FaultType(fault)]]

\* output_data of a successful execute; the provider is deterministic
OutputData(t) ==
    CASE t \in {"gemini", "openai"} -> [text |-> t, model |-> "default"]
      [] t = "cursor"               -> [completion |-> t, language |-> "typescript"]
      [] t \in {"figma", "github"}  -> [document |-> t]
      [] OTHER                      -> [text |-> t]

\* the ToolResponse a connector's execute returns on success
SuccessResponse(t, elapsed) ==
    [tool_id        |-> t,
     success        |-> TRUE,
     output_data    |-> OutputData(t),
     error_message  |-> NoMessage,
     execution_time |-> elapsed,
     cost           |-> cost_per_request[t],
     metadata       |-> [provider |-> t]]

\* a timeout response that reports no time spent
TimeoutResponseNoTime(t, timeout) ==
    [tool_id        |-> t,
     success        |-> FALSE,
     output_data    |-> EmptyMap,
     error_message  |-> [text |-> "Tool execution timed out after %d seconds",
                         arg  |-> timeout],
     execution_time |-> 0,
     cost           |-> 0,
     metadata       |-> EmptyMap]

\* _execute_tool_with_timeout, except asyncio.TimeoutError
TimeoutResponse(t, timeout) ==
    [tool_id        |-> t,
     success        |-> FALSE,
     output_data    |-> EmptyMap,
     error_message  |-> [text |-> "Tool execution timed out after %d seconds",
                         arg  |-> timeout],
     execution_time |-> timeout,
     cost           |-> 0,
     metadata       |-> EmptyMap]

\* _execute_parallel, isinstance(result, Exception)
ExceptionResponse(t, exc) ==
    [tool_id        |-> t,
     success        |-> FALSE,
     output_data    |-> EmptyMap,
     error_message  |-> exc,
     execution_time |-> 0,
     cost           |-> 0,
     metadata       |-> EmptyMap]

\* placeholder of a call that has no ToolResponse (yet)
NoResponse ==
    [tool_id        |-> "",
     success        |-> FALSE,
     output_data    |-> EmptyMap,
     error_message  |-> NoMessage,
     execution_time |-> 0,
     cost           |-> NoCost,
     metadata       |-> EmptyMap]

\* the message of the exception a custom connector's execute raises
CustomError == [text |-> "custom connector failed", arg |-> 0]

(***************************************************************************)
(* Helpers.                                                                *)
(***************************************************************************)
Min(a, b) == IF a < b THEN a ELSE b

Max(a, b) == IF a > b THEN a ELSE b

\* a sum that leaves out the costs of the failed responses
RECURSIVE TotalCostSuccessful(_)
TotalCostSuccessful(rs) ==
    IF rs = <<>> THEN 0
    ELSE (IF Head(rs).success THEN OrZero(Head(rs).cost) ELSE 0) + TotalCostSuccessful(Tail(rs))

\* sum(r.cost or 0.0 for r in results)
RECURSIVE TotalCost(_)
TotalCost(rs) == IF rs = <<>> THEN 0 ELSE OrZero(Head(rs).cost) + TotalCost(Tail(rs))

\* the text _aggregate_results accumulates under one key of combined_output:
\* for every successful result that has the field, "\n" and then the field
RECURSIVE Combined(_, _)
Combined(rs, field) ==
    IF rs = <<>> THEN <<>>
    ELSE LET r == Head(rs) IN
         (IF r.success /\ field \in DOMAIN r.output_data
          THEN <<"\n", r.output_data[field]>> ELSE <<>>) \o Combined(Tail(rs), field)

\* the index of the last result of tool t: a later assignment to
\* results_by_tool[t] overwrites an earlier one
LastOf(rs, t) == CHOOSE i \in 1..Len(rs) : rs[i].tool_id = t /\ \A j \in (i+1)..Len(rs) : rs[j].tool_id # t

\* OrchestrationEngine._aggregate_results
AggregateResults(rs) ==
    LET ok(r)  == r.success
        bad(r) == ~r.success
        ids    == {rs[i].tool_id : i \in 1..Len(rs)}
        text   == Combined(rs, "text")
        code   == Combined(rs, "completion")
        failed == SelectSeq(rs, bad)
    IN [total_tools      |-> Len(rs),
        successful_tools |-> Len(SelectSeq(rs, ok)),
        failed_tools     |-> Len(failed),
        results_by_tool  |-> [t \in ids |->
                                LET r == rs[LastOf(rs, t)] IN
                                [success        |-> r.success,
                                 output         |-> r.output_data,
                                 execution_time |-> r.execution_time,
                                 cost           |-> r.cost,
                                 error          |-> r.error_message]],
        combined_output  |-> [k \in {f \in {"text", "code"} :
                                       IF f = "text" THEN text # <<>> ELSE code # <<>>} |->
                                IF k = "text" THEN text ELSE code],
        errors           |-> [i \in 1..Len(failed) |->
                                [tool_id |-> failed[i].tool_id,
                                 error   |-> failed[i].error_message]]]

(***************************************************************************)
(* Requests.                                                               *)
(***************************************************************************)
\* models.py OrchestrationRequest.max_parallel default
DefaultMaxParallel == 3

\* a ToolRequest whose parameters are the whole context
BuildToolRequestTopLevel(tool_id, req) ==
    [tool_id    |-> tool_id,
     input_data |-> req.input_data,
     parameters |-> req.context,
     context    |-> req.context,
     priority   |-> Get(req.context, "priority", 1)]

\* the ToolRequest _execute_parallel and _execute_sequential build for a tool
BuildToolRequest(tool_id, req) ==
    [tool_id    |-> tool_id,
     input_data |-> req.input_data,
     parameters |-> Get(req.context, "parameters", EmptyMap),
     context    |-> req.context,
     priority   |-> Get(req.context, "priority", 1)]

\* a validation that looks at registration only, not at the connector's status
UnavailableToolsUnregistered(req, registry) ==
    LET missing(t) == t \notin DOMAIN registry
    IN SelectSeq(req.tools, missing)

\* execute_orchestration, "Validate tools are available"
UnavailableTools(req, registry) ==
    LET missing(t) == IF t \notin DOMAIN registry THEN TRUE
                      ELSE registry[t].status # "available"
    IN SelectSeq(req.tools, missing)

\* a split that puts one tool more than max_parallel in each batch
ToolBatchesOneMore(ts, k) ==
    LET n  == Len(ts)
        nb == IF k > 0 THEN (n + k) \div (k + 1) ELSE 0
    IN [j \in 1..nb |-> SubSeq(ts, (j - 1) * (k + 1) + 1, Min(j * (k + 1), n))]

\* _execute_hybrid, "Split tools into batches":
\* [tools[i:i + k] for i in range(0, len(tools), k)]; range is empty for k < 0
\* (k = 0 raises, see ExecuteOrchestration)
ToolBatches(ts, k) ==
    LET n  == Len(ts)
        nb == IF k > 0 THEN (n + k - 1) \div k ELSE 0
    IN [j \in 1..nb |-> SubSeq(ts, (j - 1) * k + 1, Min(j * k, n))]

\* _execute_sequential, "Break on failure if configured"
StopOnError(result, req) ==
    ~result.success /\ Get(req.context, "stop_on_error", FALSE)

(***************************************************************************)
(* Inputs of the model.                                                    *)
(***************************************************************************)
\* the connectors registered with the engine under test
EngineTools == {"gemini", "custom"}

ToolLists == UNION {[1..n -> EngineTools] : n \in 0..MaxTools}

InputDatas == {EmptyMap, [prompt |-> "str"]}

Strategies == {"parallel", "sequential", "hybrid", "round_robin"}

MaxParallels == {-1, 0, 1, 2}

Contexts == {EmptyMap, [stop_on_error |-> TRUE]}

\* the statuses update_status is called with
StatusUpdates == {"available", "unavailable"}

\* per-call timeouts, in seconds
Timeouts == {1, 2}

\* the requests submitted: max_parallel varies where it is read (hybrid),
\* stop_on_error where it is read (sequential)
Requests ==
    {r \in [workflow_id : {"wf"},
            tools       : ToolLists,
            input_data  : InputDatas,
            strategy    : Strategies,
            max_parallel: MaxParallels \cup {DefaultMaxParallel},
            timeout     : Timeouts,
            context     : Contexts] :
       /\ (r.strategy = "hybrid") = (r.max_parallel # DefaultMaxParallel)
       /\ r.strategy # "sequential" => r.context = EmptyMap}

\* what a provider does with a request it received
ProviderOutcomes == {"ok", "network_error", "http_error", "malformed"}

\* the provider outcomes the engine is run against
EngineOutcomes == {"ok", "http_error"}

\* what a custom connector's execute does once started
CustomOutcomes == {"ok", "raise"}

(***************************************************************************)
(* State.                                                                  *)
(***************************************************************************)
VARIABLES
    tools,      \* OrchestrationEngine.tools: tool id -> connector (ToolInfo.status,
                \* and the time since _last_request_time, capped at min_interval)
    pc,         \* where execute_orchestration stands
    request,    \* its OrchestrationRequest
    calls,      \* the _execute_tool_with_timeout calls of the batch in flight
    results,    \* the results list of the strategy function in progress
    batch,      \* _execute_hybrid: number of the batch in flight
    now,        \* time.time() - start_time
    response,   \* the OrchestrationResponse returned
    trace,      \* history: the calls dispatched so far, in dispatch order
    settings,   \* core.config settings: the providers whose credential is set
    initialized,\* MCPServer._initialized
    reply,      \* what MCPServer.execute_tool gave its caller
    history,    \* history: the last exchanges of a caller of execute_tool who
                \* keeps them (on), oldest first
    health,     \* health_check_all_tools: where it stands, its health_status,
                \* and the dict iterator of its for loop over self.tools
    workflow_templates,  \* OrchestrationEngine.workflow_templates: id -> template
    runs,       \* the execute_orchestration calls that run concurrently: the
                \* local variables of each, and its calls as they were answered
    absent      \* history: the ids whose last registry call made on the facade
                \* was unregister_tool

vars == <<tools, pc, request, calls, results, batch, now, response, trace,
          settings, initialized, reply, history, health,
          workflow_templates, runs, absent>>

NoRequest ==
    [workflow_id |-> "", tools |-> <<>>, input_data |-> EmptyMap, strategy |-> "",
     max_parallel |-> DefaultMaxParallel, timeout |-> 1, context |-> EmptyMap]

NoOrchestrationResponse ==
    [workflow_id |-> "", success |-> FALSE, results |-> <<>>,
     aggregated_output |-> EmptyMap, total_execution_time |-> 0, total_cost |-> 0,
     errors |-> <<>>]

\* BaseConnector.__init__ with ToolInfo's default status; _last_request_time = 0
\* lies further back than any min_interval
NewConnector(t) == [status |-> "available", age |-> MinInterval(t)]

\* execute_tool has not answered
NoReply == [status |-> 0, body |-> NoResponse, detail |-> ""]

\* no health check is in flight
NoHealth ==
    [pc |-> "idle", slots |-> <<>>, pos |-> 0, size |-> 0, left |-> 0,
     probe |-> "", status |-> EmptyMap, changed |-> FALSE]

\* no caller keeps the exchanges
NoHistory == [on |-> FALSE, log |-> <<>>]

\* OrchestrationEngine.__init__, the engine on its own
Init ==
    /\ history = NoHistory
    /\ health = NoHealth
    /\ runs = <<>>
    /\ absent = {}
    /\ workflow_templates = EmptyMap
    /\ settings = {}
    /\ initialized = FALSE
    /\ reply = NoReply
    /\ tools = EmptyMap
    /\ pc = "idle"
    /\ request = NoRequest
    /\ calls = <<>>
    /\ results = <<>>
    /\ batch = 0
    /\ now = 0
    /\ response = NoOrchestrationResponse
    /\ trace = <<>>

engine == <<pc, request, calls, results, batch, now, response, trace>>

facade == <<settings, initialized, reply>>

aside == <<history, health, runs, absent>>

store == <<workflow_templates>>

(***************************************************************************)
(* The registry.  Registration happens between orchestrations.             *)
(***************************************************************************)
\* self.tools[id] = connector as the iterator of a health check in flight
\* meets it: a new key takes the next free entry of the dict, a key already
\* there keeps its entry
Inserted(h, t, registry) ==
    IF h.pc # "awaiting" THEN h
    ELSE [h EXCEPT !.slots = IF t \in DOMAIN registry THEN @ ELSE Append(@, t),
                   !.changed = TRUE]

\* del self.tools[id] as the iterator of a health check in flight meets it:
\* the entry of the key is left empty
Deleted(h, t) ==
    IF h.pc # "awaiting" THEN h
    ELSE [h EXCEPT !.slots = [i \in DOMAIN @ |-> IF @[i] = t THEN "" ELSE @[i]],
                   !.changed = TRUE]

\* OrchestrationEngine.register_tool
RegisterTool(t) ==
    /\ pc = "idle"
    /\ tools' = [x \in DOMAIN tools \cup {t} |-> IF x = t THEN NewConnector(t) ELSE tools[x]]
    /\ health' = Inserted(health, t, tools)
    /\ UNCHANGED <<engine, facade, history, runs, absent, store>>

\* OrchestrationEngine.unregister_tool (no change when the id is absent)
UnregisterTool(t) ==
    /\ pc = "idle"
    /\ t \in DOMAIN tools
    /\ tools' = [x \in DOMAIN tools \ {t} |-> tools[x]]
    /\ health' = Deleted(health, t)
    /\ UNCHANGED <<engine, facade, history, runs, absent, store>>

\* BaseConnector.update_status
UpdateStatus(t, s) ==
    /\ pc = "idle"
    /\ t \in DOMAIN tools
    /\ tools' = [tools EXCEPT ![t].status = s]
    /\ UNCHANGED <<engine, facade, aside, store>>

(***************************************************************************)
(* execute_orchestration.                                                  *)
(***************************************************************************)
\* a return whose success is that of the tools: true iff no response failed
CompletedIffAllSucceeded(req, rs, elapsed) ==
    [workflow_id          |-> req.workflow_id,
     success              |-> \A i \in DOMAIN rs : rs[i].success,
     results              |-> rs,
     aggregated_output    |-> AggregateResults(rs),
     total_execution_time |-> elapsed,
     total_cost           |-> TotalCost(rs),
     errors               |-> <<>>]

\* execute_orchestration's return after aggregation; errors is still []
Completed(req, rs, elapsed) ==
    LET errors == <<>> IN
    [workflow_id          |-> req.workflow_id,
     success              |-> Len(errors) = 0,
     results              |-> rs,
     aggregated_output    |-> AggregateResults(rs),
     total_execution_time |-> elapsed,
     total_cost           |-> TotalCost(rs),
     errors               |-> errors]

\* an except branch that answers without the request's workflow_id
FailedAnonymous(req, outer, e, elapsed) ==
    [workflow_id          |-> "",
     success              |-> FALSE,
     results              |-> outer,
     aggregated_output    |-> EmptyMap,
     total_execution_time |-> elapsed,
     total_cost           |-> 0,
     errors               |-> <<e>>]

\* execute_orchestration's except branch: e was raised before any strategy
\* function returned, so its own results list is still [] (outer)
Failed(req, outer, e, elapsed) ==
    [workflow_id          |-> req.workflow_id,
     success              |-> FALSE,
     results              |-> outer,
     aggregated_output    |-> EmptyMap,
     total_execution_time |-> elapsed,
     total_cost           |-> 0,
     errors               |-> <<e>>]

\* a coroutine handed to asyncio.wait_for: one _execute_tool_with_timeout call.
\* k is its place in trace
NewTask(k, t, req) ==
    [k        |-> k,
     request  |-> BuildToolRequest(t, req),
     stage    |-> "created",
     wake     |-> 0,
     issued   |-> FALSE,
     timedout |-> FALSE,
     resp     |-> NoResponse,
     exc      |-> NoMessage]

\* a dispatch that creates the first tool's task only
CreateTasksFirstOnly(ts, req, base) ==
    [i \in 1..Min(Len(ts), 1) |-> NewTask(base + i, ts[i], req)]

\* _execute_parallel: one task per tool of the list, all created before gather
CreateTasks(ts, req, base) == [i \in 1..Len(ts) |-> NewTask(base + i, ts[i], req)]

Dispatched(ts, at) == [i \in 1..Len(ts) |-> [tool_id |-> ts[i], start |-> at, end |-> -1]]

\* execute_orchestration returns r
Respond(r) ==
    /\ response' = r
    /\ pc' = "done"
    /\ calls' = <<>>
    /\ results' = <<>>
    /\ batch' = 0

\* execute_orchestration from its entry to its first await, or to its return
\* when it does not await, on the registry it finds
Orchestrate(req, registry) ==
    /\ request' = req
    /\ now' = 0
    /\ LET unavailable == UnavailableTools(req, registry) IN
       IF unavailable # <<>>
       THEN /\ Respond(Failed(req, <<>>, [text |-> "Unavailable tools", ids |-> unavailable], 0))
            /\ trace' = <<>>
       ELSE CASE req.strategy = "parallel" ->
                   /\ trace' = Dispatched(req.tools, 0)
                   /\ calls' = CreateTasks(req.tools, req, 0)
                   /\ pc' = "parallel"
                   /\ UNCHANGED <<results, batch, response>>
              [] req.strategy = "sequential" ->
                   IF req.tools = <<>>
                   THEN Respond(Completed(req, <<>>, 0)) /\ trace' = <<>>
                   ELSE /\ trace' = Dispatched(<<req.tools[1]>>, 0)
                        /\ calls' = <<NewTask(1, req.tools[1], req)>>
                        /\ pc' = "sequential"
                        /\ UNCHANGED <<results, batch, response>>
              [] req.strategy = "hybrid" ->
                   IF req.max_parallel = 0
                   THEN /\ Respond(Failed(req, <<>>, [text |-> "range() arg 3 must not be zero",
                                                     ids |-> <<>>], 0))
                        /\ trace' = <<>>
                   ELSE LET bs == ToolBatches(req.tools, req.max_parallel) IN
                        IF bs = <<>>
                        THEN Respond(Completed(req, <<>>, 0)) /\ trace' = <<>>
                        ELSE /\ trace' = Dispatched(bs[1], 0)
                             /\ calls' = CreateTasks(bs[1], req, 0)
                             /\ pc' = "hybrid"
                             /\ batch' = 1
                             /\ UNCHANGED <<results, response>>
              [] OTHER ->
                   /\ Respond(Failed(req, <<>>, [text |-> "Unknown strategy",
                                                ids |-> <<req.strategy>>], 0))
                   /\ trace' = <<>>

\* OrchestrationEngine.execute_orchestration, called on the engine
ExecuteOrchestration(req) ==
    /\ pc = "idle"
    /\ Orchestrate(req, tools)
    /\ UNCHANGED tools
    /\ UNCHANGED <<facade, aside, store>>

\* the call has returned a ToolResponse or raised
Finished(c) == c.stage \in {"returned", "raised"}

InFlight(c) == ~Finished(c)

\* a gather whose exceptions are not turned into responses
ProcessResultUnhandled(c) == c.resp

\* _execute_parallel, "Handle exceptions": gather(return_exceptions=True) hands
\* back what each task returned or raised, in task order
ProcessResult(c) ==
    IF c.stage = "raised" THEN ExceptionResponse(c.request.tool_id, c.exc) ELSE c.resp

ProcessedResults(cs) == [i \in 1..Len(cs) |-> ProcessResult(cs[i])]

\* _execute_parallel returns to execute_orchestration, which aggregates
GatherParallel ==
    /\ pc = "parallel"
    /\ \A i \in DOMAIN calls : Finished(calls[i])
    /\ Respond(Completed(request, ProcessedResults(calls), now))
    /\ UNCHANGED <<tools, request, now, trace>>
    /\ UNCHANGED <<facade, aside, store>>

\* _execute_parallel returns to _execute_hybrid, which extends results and
\* runs the next batch, or returns
GatherHybrid ==
    /\ pc = "hybrid"
    /\ \A i \in DOMAIN calls : Finished(calls[i])
    /\ LET rs == results \o ProcessedResults(calls)
           bs == ToolBatches(request.tools, request.max_parallel)
       IN IF batch < Len(bs)
          THEN /\ batch' = batch + 1
               /\ results' = rs
               /\ calls' = CreateTasks(bs[batch + 1], request, Len(trace))
               /\ trace' = trace \o Dispatched(bs[batch + 1], now)
               /\ UNCHANGED <<pc, response>>
          ELSE /\ Respond(Completed(request, rs, now))
               /\ UNCHANGED trace
    /\ UNCHANGED <<tools, request, now>>
    /\ UNCHANGED <<facade, aside, store>>

\* _execute_sequential's loop body after its await: an exception of the call
\* leaves the loop and the function; otherwise append, break or go on
SequentialStep ==
    /\ pc = "sequential"
    /\ Finished(calls[1])
    /\ IF calls[1].stage = "raised"
       THEN /\ Respond(Failed(request, <<>>,
                              [text |-> calls[1].exc.text, ids |-> <<>>], now))
            /\ UNCHANGED trace
       ELSE LET rs == Append(results, calls[1].resp)
                n  == Len(rs)
            IN IF StopOnError(calls[1].resp, request) \/ n = Len(request.tools)
               THEN /\ Respond(Completed(request, rs, now))
                    /\ UNCHANGED trace
               ELSE /\ results' = rs
                    /\ calls' = <<NewTask(Len(trace) + 1, request.tools[n + 1], request)>>
                    /\ trace' = trace \o Dispatched(<<request.tools[n + 1]>>, now)
                    /\ UNCHANGED <<pc, batch, response>>
    /\ UNCHANGED <<tools, request, now>>
    /\ UNCHANGED <<facade, aside, store>>

\* the caller takes the response
Return ==
    /\ pc = "done"
    /\ pc' = "idle"
    /\ request' = NoRequest
    /\ response' = NoOrchestrationResponse
    /\ trace' = <<>>
    /\ now' = 0
    /\ UNCHANGED <<tools, calls, results, batch>>
    /\ UNCHANGED <<facade, aside, store>>

(***************************************************************************)
(* One call: _execute_tool_with_timeout around a connector's execute.      *)
(***************************************************************************)
\* the call ends: what the wrapper returns is in c
EndCall(i, c) ==
    /\ calls' = [calls EXCEPT ![i] = c]
    /\ trace' = [trace EXCEPT ![c.k].end = now]

\* an execute that does not call validate_input
PreCallFaultUnvalidated(t, d) ==
    IF ~SupportedAction(t, d) THEN "unsupported_action" ELSE "none"

\* a built-in execute between _apply_rate_limit and the request to the
\* provider: the fault it raises there, if any
PreCallFault(t, d) ==
    IF ~ValidateInput(t, d) THEN "invalid_input"
    ELSE IF ~SupportedAction(t, d) THEN "unsupported_action"
    ELSE "none"

\* except Exception as e: return await self._handle_error(e, request)
Fault(i, fault) ==
    LET c == calls[i]
        t == c.request.tool_id
    IN EndCall(i, [c EXCEPT !.stage = "returned", !.resp = HandleError(t, fault)])

\* a built-in execute from the end of _apply_rate_limit
\* (self._last_request_time = time.time()) to its request to the provider
Proceed(i) ==
    LET c     == calls[i]
        t     == c.request.tool_id
        fault == PreCallFault(t, c.request.input_data)
    IN IF fault # "none"
       THEN /\ Fault(i, fault)
            /\ tools' = [tools EXCEPT ![t].age = 0, ![t].status = "error"]
       ELSE /\ calls' = [calls EXCEPT ![i].stage = "calling", ![i].issued = TRUE]
            /\ tools' = [tools EXCEPT ![t].age = 0]
            /\ UNCHANGED trace

\* the task starts: self.tools[tool_id].execute(request) runs to its first await.
\* The event loop starts the tasks in the order they were created
TaskStart(i) ==
    /\ i \in DOMAIN calls
    /\ calls[i].stage = "created"
    /\ \A j \in 1..(i - 1) : calls[j].stage # "created"
    /\ LET t == calls[i].request.tool_id IN
       IF t \in Custom
       THEN /\ calls' = [calls EXCEPT ![i].stage = "calling", ![i].issued = TRUE]
            /\ UNCHANGED <<tools, trace>>
       ELSE IF tools[t].age < MinInterval(t)
            THEN /\ calls' = [calls EXCEPT ![i].stage = "sleeping",
                                           ![i].wake = MinInterval(t) - tools[t].age]
                 /\ UNCHANGED <<tools, trace>>
            ELSE Proceed(i)
    /\ UNCHANGED <<pc, request, results, batch, now, response>>
    /\ UNCHANGED <<facade, aside, store>>

\* asyncio.sleep(min_interval - time_since_last) of _apply_rate_limit is over
Wake(i) ==
    /\ i \in DOMAIN calls
    /\ calls[i].stage = "sleeping"
    /\ calls[i].wake = 0
    /\ Proceed(i)
    /\ UNCHANGED <<pc, request, results, batch, now, response>>
    /\ UNCHANGED <<facade, aside, store>>

\* a fault of the request that leaves the connector's status as it is
ProviderReturnStatusKept(i, outcome) ==
    /\ i \in DOMAIN calls
    /\ calls[i].stage = "calling"
    /\ calls[i].request.tool_id \in BuiltIn
    /\ LET c == calls[i]
           t == c.request.tool_id
       IN IF outcome = "ok"
          THEN EndCall(i, [c EXCEPT !.stage = "returned",
                                    !.resp = SuccessResponse(t, now - trace[c.k].start)])
          ELSE Fault(i, outcome)
    /\ UNCHANGED <<tools, pc, request, results, batch, now, response>>
    /\ UNCHANGED <<facade, aside, store>>

\* the provider of a built-in connector answers, or the request fails
ProviderReturn(i, outcome) ==
    /\ i \in DOMAIN calls
    /\ calls[i].stage = "calling"
    /\ calls[i].request.tool_id \in BuiltIn
    /\ LET c == calls[i]
           t == c.request.tool_id
       IN IF outcome = "ok"
          THEN /\ EndCall(i, [c EXCEPT !.stage = "returned",
                                       !.resp = SuccessResponse(t, now - trace[c.k].start)])
               /\ UNCHANGED tools
          ELSE /\ Fault(i, outcome)
               /\ tools' = [tools EXCEPT ![t].status = "error"]
    /\ UNCHANGED <<pc, request, results, batch, now, response>>
    /\ UNCHANGED <<facade, aside, store>>

\* a custom connector's execute returns a response or raises
CustomReturn(i, outcome) ==
    /\ i \in DOMAIN calls
    /\ calls[i].stage = "calling"
    /\ calls[i].request.tool_id \in Custom
    /\ LET c == calls[i]
           t == c.request.tool_id
       IN IF outcome = "ok"
          THEN EndCall(i, [c EXCEPT !.stage = "returned",
                                    !.resp = SuccessResponse(t, now - trace[c.k].start)])
          ELSE EndCall(i, [c EXCEPT !.stage = "raised", !.exc = CustomError])
    /\ UNCHANGED <<tools, pc, request, results, batch, now, response>>
    /\ UNCHANGED <<facade, aside, store>>

\* a timer that never becomes due
DueNever(c) == FALSE

\* the timeout of asyncio.wait_for is due and the call still awaits
Due(c) ==
    /\ c.stage \in {"sleeping", "calling"}
    /\ now - trace[c.k].start >= request.timeout

\* asyncio.wait_for gives up: execute is cancelled where it awaits.  Timers
\* due at the same instant run in the order they were set
Timeout(i) ==
    /\ i \in DOMAIN calls
    /\ Due(calls[i])
    /\ \A j \in 1..(i - 1) : ~Due(calls[j])
    /\ EndCall(i, [calls[i] EXCEPT !.stage = "returned", !.timedout = TRUE,
                     !.resp = TimeoutResponse(calls[i].request.tool_id, request.timeout)])
    /\ UNCHANGED <<tools, pc, request, results, batch, now, response>>
    /\ UNCHANGED <<facade, aside, store>>

\* every connector's time since its last request grows by one tick
Aged(registry) ==
    [t \in DOMAIN registry |->
       [registry[t] EXCEPT !.age = Min(registry[t].age + 1, MinInterval(t))]]

\* one second passes while the engine awaits: no task is about to start, no
\* sleep is over, no timeout is due
Tick ==
    /\ pc \in {"parallel", "sequential", "hybrid"}
    /\ \E i \in DOMAIN calls : InFlight(calls[i])
    /\ \A i \in DOMAIN calls :
         InFlight(calls[i]) =>
           /\ calls[i].stage # "created"
           /\ calls[i].stage = "sleeping" => calls[i].wake > 0
           /\ now - trace[calls[i].k].start < request.timeout
    /\ now' = now + 1
    /\ calls' = [i \in DOMAIN calls |->
                   IF calls[i].stage = "sleeping"
                   THEN [calls[i] EXCEPT !.wake = calls[i].wake - 1] ELSE calls[i]]
    /\ tools' = Aged(tools)
    /\ UNCHANGED <<pc, request, results, batch, response, trace>>
    /\ UNCHANGED <<facade, aside, store>>

\* one second passes between orchestrations
IdleTick ==
    /\ pc = "idle"
    /\ Aged(tools) # tools
    /\ tools' = Aged(tools)
    /\ UNCHANGED <<engine, facade, aside, store>>

(***************************************************************************)
(* The engine with its registry, its callers and its providers.            *)
(***************************************************************************)
Next ==
    \/ \E t \in EngineTools : RegisterTool(t)
    \/ \E t \in EngineTools : UnregisterTool(t)
    \/ \E t \in EngineTools, s \in StatusUpdates : UpdateStatus(t, s)
    \/ \E req \in Requests : ExecuteOrchestration(req)
    \/ \E i \in 1..MaxTools : TaskStart(i)
    \/ \E i \in 1..MaxTools : Wake(i)
    \/ \E i \in 1..MaxTools, o \in EngineOutcomes : ProviderReturn(i, o)
    \/ \E i \in 1..MaxTools, o \in CustomOutcomes : CustomReturn(i, o)
    \/ \E i \in 1..MaxTools : Timeout(i)
    \/ Tick
    \/ IdleTick
    \/ GatherParallel
    \/ GatherHybrid
    \/ SequentialStep
    \/ Return

Spec == Init /\ [][Next]_vars

(***************************************************************************)
(* The server facade: MCPServer.execute_tool on the built-in connectors.   *)
(***************************************************************************)
\* longest a provider leaves a request unanswered, in seconds (the
\* connectors' httpx.AsyncClient gives up after its own timeout)
MaxWait == 1

\* the sets of configured credentials the facade is started with
Configurations == {BuiltIn, {"figma", "github"}}

FacadeInputs ==
    {EmptyMap,
     [prompt |-> "str"],
     [prompt |-> "int"],
     [action |-> "get_file"],
     [action |-> "get_repository"],
     [action |-> "delete_file"],
     [messages |-> "list"],
     [messages |-> "str"]}

\* the ToolRequests the router hands to execute_tool
ToolRequests ==
    [tool_id    : BuiltIn \cup Custom,
     input_data : FacadeInputs,
     parameters : {EmptyMap},
     context    : {EmptyMap},
     priority   : {1}]

\* MCPServer.__init__
FacadeInit ==
    /\ history = NoHistory
    /\ health = NoHealth
    /\ runs = <<>>
    /\ absent = {}
    /\ workflow_templates = EmptyMap
    /\ settings \in Configurations
    /\ initialized = FALSE
    /\ reply = NoReply
    /\ tools = EmptyMap
    /\ pc = "idle"
    /\ request = NoRequest
    /\ calls = <<>>
    /\ results = <<>>
    /\ batch = 0
    /\ now = 0
    /\ response = NoOrchestrationResponse
    /\ trace = <<>>

\* MCPServer._initialize_tools: register_tool of a new connector for every
\* provider whose credential is set
InitializeTools(registry, configured) ==
    [t \in DOMAIN registry \cup configured |->
       IF t \in configured THEN NewConnector(t) ELSE registry[t]]

\* MCPServer._initialize_workflow_templates: the templates it registers
BuiltInTemplates ==
    [tid \in {"ideation_workflow", "design_workflow", "code_review_workflow",
              "research_workflow"} |->
       CASE tid = "ideation_workflow" ->
              [id |-> tid, tools |-> <<"gemini", "openai">>, strategy |-> "parallel",
               parameters |-> [temperature |-> "0.8", max_tokens |-> "2048"]]
         [] tid = "design_workflow" ->
              [id |-> tid, tools |-> <<"figma", "cursor", "github">>, strategy |-> "hybrid",
               parameters |-> [format |-> "png", language |-> "typescript"]]
         [] tid = "code_review_workflow" ->
              [id |-> tid, tools |-> <<"openai", "cursor", "github">>,
               strategy |-> "sequential",
               parameters |-> [temperature |-> "0.3", max_tokens |-> "1024"]]
         [] OTHER ->
              [id |-> tid, tools |-> <<"gemini", "openai", "github">>,
               strategy |-> "parallel",
               parameters |-> [temperature |-> "0.7", max_tokens |-> "4096"]]]

\* register_workflow_template for each of them: self.workflow_templates[id] = template
InitializeWorkflowTemplates(templates) ==
    [tid \in DOMAIN templates \cup DOMAIN BuiltInTemplates |->
       IF tid \in DOMAIN BuiltInTemplates THEN BuiltInTemplates[tid] ELSE templates[tid]]

\* MCPServer._ensure_initialized, the templates it leaves
EnsureTemplates(templates, done) ==
    IF done THEN templates ELSE InitializeWorkflowTemplates(templates)

\* MCPServer._ensure_initialized, the registry it leaves
EnsureInitialized(registry, done, configured) ==
    IF done THEN registry ELSE InitializeTools(registry, configured)

\* what the provider did for a call: its answer, the fault of the request to
\* it, or nothing when no request was sent
OutcomeOf(c) ==
    IF ~c.issued THEN "none"
    ELSE IF c.stage = "raised" THEN "raise"
    ELSE IF c.resp.success THEN "ok"
    ELSE CHOOSE o \in ProviderOutcomes \ {"ok"} : FaultType(o) = c.resp.metadata.error_type

\* one exchange as the caller sees it: the request, what the provider did and
\* the reply
Exchange(treq, outcome, r) ==
    [request |-> treq, outcome |-> outcome, status |-> r.status,
     output_data |-> r.body.output_data]

\* the caller's record after one more exchange: the last two are kept
Remember(x) ==
    IF ~history.on THEN history
    ELSE [history EXCEPT !.log = IF Len(@) = 2 THEN <<@[2], x>> ELSE Append(@, x)]

\* fastapi.HTTPException(status_code, detail)
HTTPException(status, detail) == [status |-> status, body |-> NoResponse, detail |-> detail]

\* a lookup that does not read the connector's status
AdmissionRegisteredOnly(treq, registry) ==
    IF treq.tool_id \notin DOMAIN registry THEN 404 ELSE 0

\* MCPServer.execute_tool, the checks before tool.execute: the status code of
\* the HTTPException raised, 0 when the request goes on to the connector
Admission(treq, registry) ==
    IF treq.tool_id \notin DOMAIN registry THEN 404
    ELSE IF registry[treq.tool_id].status # "available" THEN 503
    ELSE 0

\* MCPServer.execute_tool up to its await of tool.execute, or to its raise
ExecuteTool(treq) ==
    /\ pc = "idle"
    /\ initialized' = TRUE
    /\ tools' = EnsureInitialized(tools, initialized, settings)
    /\ now' = 0
    /\ LET code == Admission(treq, tools') IN
       IF code # 0
       THEN /\ reply' = HTTPException(code, IF code = 404 THEN "not found"
                                                         ELSE "is not available")
            /\ pc' = "replied"
            /\ history' = Remember(Exchange(treq, "none", reply'))
            /\ UNCHANGED <<calls, trace>>
       ELSE /\ calls' = <<[k |-> 1, request |-> treq, stage |-> "created", wake |-> 0,
                           issued |-> FALSE, timedout |-> FALSE, resp |-> NoResponse,
                           exc |-> NoMessage]>>
            /\ trace' = <<[tool_id |-> treq.tool_id, start |-> 0, end |-> -1]>>
            /\ pc' = "tool"
            /\ reply' = NoReply
            /\ UNCHANGED history
    /\ workflow_templates' = EnsureTemplates(workflow_templates, initialized)
    /\ UNCHANGED <<request, results, batch, response, settings, health, runs, absent>>

\* tool.execute has returned or raised: return its response, or raise
\* HTTPException(500)
ToolReturn ==
    /\ pc = "tool"
    /\ Finished(calls[1])
    /\ reply' = IF calls[1].stage = "raised"
                THEN HTTPException(500, calls[1].exc.text)
                ELSE [status |-> 200, body |-> calls[1].resp, detail |-> ""]
    /\ pc' = "replied"
    /\ history' = Remember(Exchange(calls[1].request, OutcomeOf(calls[1]), reply'))
    /\ UNCHANGED <<tools, request, calls, results, batch, now, response, trace, settings,
                   initialized, health, runs, absent, store>>

\* the caller takes the reply
TakeReply ==
    /\ pc = "replied"
    /\ pc' = "idle"
    /\ reply' = NoReply
    /\ calls' = <<>>
    /\ trace' = <<>>
    /\ now' = 0
    /\ UNCHANGED <<tools, request, results, batch, response, settings, initialized, aside,
                   store>>

\* one second passes while execute_tool awaits the connector
ToolTick ==
    /\ pc = "tool"
    /\ \/ calls[1].stage = "sleeping" /\ calls[1].wake > 0
       \/ calls[1].stage = "calling" /\ now < MaxWait
    /\ now' = now + 1
    /\ calls' = [calls EXCEPT ![1].wake = Max(calls[1].wake - 1, 0)]
    /\ tools' = Aged(tools)
    /\ UNCHANGED <<pc, request, results, batch, response, trace, facade, aside, store>>

\* MCPServer.register_custom_tool
RegisterCustomTool(t) == RegisterTool(t)

FacadeNext ==
    \/ \E t \in Custom : RegisterCustomTool(t)
    \/ \E treq \in ToolRequests : ExecuteTool(treq)
    \/ TaskStart(1)
    \/ Wake(1)
    \/ \E o \in ProviderOutcomes : ProviderReturn(1, o)
    \/ \E o \in CustomOutcomes : CustomReturn(1, o)
    \/ ToolTick
    \/ IdleTick
    \/ ToolReturn
    \/ TakeReply

FacadeSpec == FacadeInit /\ [][FacadeNext]_vars

(***************************************************************************)
(* A caller who repeats its requests to execute_tool, on providers that    *)
(* are deterministic.                                                      *)
(***************************************************************************)
\* the requests the caller makes
RepeatRequests ==
    {treq \in ToolRequests :
       /\ treq.tool_id \in {"gemini", "figma", "cursor"}
       /\ treq.input_data \in {EmptyMap, [prompt |-> "str"], [action |-> "get_file"]}}

\* MCPServer.__init__, and a caller who keeps its exchanges
RepeatInit ==
    /\ history = [on |-> TRUE, log |-> <<>>]
    /\ health = NoHealth
    /\ runs = <<>>
    /\ absent = {}
    /\ workflow_templates = EmptyMap
    /\ settings = {"gemini", "figma"}
    /\ initialized = FALSE
    /\ reply = NoReply
    /\ tools = EmptyMap
    /\ pc = "idle"
    /\ request = NoRequest
    /\ calls = <<>>
    /\ results = <<>>
    /\ batch = 0
    /\ now = 0
    /\ response = NoOrchestrationResponse
    /\ trace = <<>>

\* the provider does for a request what it did for the same request before
DeterministicReturn(o) ==
    /\ ProviderReturn(1, o)
    /\ \A n \in DOMAIN history.log :
         (history.log[n].request = calls[1].request /\ history.log[n].outcome # "none")
           => o = history.log[n].outcome

RepeatNext ==
    \/ \E treq \in RepeatRequests : ExecuteTool(treq)
    \/ TaskStart(1)
    \/ Wake(1)
    \/ \E o \in ProviderOutcomes : DeterministicReturn(o)
    \/ ToolTick
    \/ IdleTick
    \/ ToolReturn
    \/ TakeReply

RepeatSpec == RepeatInit /\ [][RepeatNext]_vars

(***************************************************************************)
(* The engine on a running event loop: a step that is ready (a task to     *)
(* start, a sleep that is over, a timeout that is due, a gather whose      *)
(* tasks have all ended) is run, and time passes.  Nothing makes a         *)
(* provider or a custom connector answer.                                  *)
(***************************************************************************)
\* the steps the event loop has ready
Scheduled ==
    \/ \E i \in 1..MaxTools : TaskStart(i)
    \/ \E i \in 1..MaxTools : Wake(i)
    \/ \E i \in 1..MaxTools : Timeout(i)
    \/ GatherParallel
    \/ GatherHybrid
    \/ SequentialStep

LiveSpec == Init /\ [][Next]_vars /\ WF_vars(Scheduled) /\ WF_vars(Tick)

(***************************************************************************)
(* The router's execute_workflow_template.                                 *)
(***************************************************************************)
\* models.py OrchestrationRequest.timeout default, in seconds
DefaultTimeout == 300

\* a merge in which the template's value wins on a key of both
MergedContextTemplateWins(parameters, context) ==
    [k \in DOMAIN parameters \cup DOMAIN context |->
       IF k \in DOMAIN parameters THEN parameters[k] ELSE context[k]]

\* {**template.parameters, **context}
MergedContext(parameters, context) ==
    [k \in DOMAIN parameters \cup DOMAIN context |->
       IF k \in DOMAIN context THEN context[k] ELSE parameters[k]]

\* the OrchestrationRequest execute_workflow_template builds
TemplateRequest(template, template_id, input_data, context) ==
    [workflow_id  |-> [template_id |-> template_id, hash |-> input_data],
     tools        |-> template.tools,
     input_data   |-> input_data,
     strategy     |-> template.strategy,
     max_parallel |-> DefaultMaxParallel,
     timeout      |-> DefaultTimeout,
     context      |-> MergedContext(template.parameters, context)]

\* the template ids, input_data and contexts the route is called with
TemplateIds == DOMAIN BuiltInTemplates \cup {"unknown_workflow"}

TemplateInputs ==
    {EmptyMap, [prompt |-> "str", action |-> "get_file", messages |-> "list"]}

CallerContexts ==
    {EmptyMap,
     [temperature |-> "0.1"],
     [stop_on_error |-> TRUE],
     [temperature |-> "0.1", format |-> "svg", user |-> "u"],
     [priority |-> 5],
     [parameters |-> [top_p |-> "0.9"], priority |-> 7]}

\* execute_workflow_template up to the first await of the engine, or to its
\* return or raise: get_workflow_template, the merge, execute_orchestration
ExecuteWorkflowTemplate(template_id, input_data, context) ==
    /\ pc = "idle"
    /\ initialized' = TRUE
    /\ tools' = EnsureInitialized(tools, initialized, settings)
    /\ workflow_templates' = EnsureTemplates(workflow_templates, initialized)
    /\ IF template_id \notin DOMAIN workflow_templates'
       THEN /\ reply' = HTTPException(404, "not found")
            /\ pc' = "replied"
            /\ now' = 0
            /\ UNCHANGED <<request, calls, results, batch, response, trace>>
       ELSE /\ Orchestrate(TemplateRequest(workflow_templates'[template_id], template_id,
                                           input_data, context), tools')
            /\ reply' = NoReply
    /\ UNCHANGED <<settings, aside>>

\* one second passes while the engine awaits; a provider answers within
\* MaxWait seconds
TemplateTick ==
    /\ Tick
    /\ \A i \in DOMAIN calls :
         calls[i].stage = "calling" => now - trace[calls[i].k].start < MaxWait

\* MCPServer.__init__
TemplateInit == FacadeInit

TemplateNext ==
    \/ \E template_id \in TemplateIds, input_data \in TemplateInputs,
          context \in CallerContexts :
         ExecuteWorkflowTemplate(template_id, input_data, context)
    \/ \E i \in 1..MaxTools : TaskStart(i)
    \/ \E i \in 1..MaxTools : Wake(i)
    \/ \E i \in 1..MaxTools, o \in EngineOutcomes : ProviderReturn(i, o)
    \/ TemplateTick
    \/ IdleTick
    \/ GatherParallel
    \/ GatherHybrid
    \/ SequentialStep
    \/ Return
    \/ TakeReply

TemplateSpec == TemplateInit /\ [][TemplateNext]_vars

(***************************************************************************)
(* Two execute_orchestration calls on one engine.  Each call's locals      *)
(* (request, results, tasks, start_time) are a run; the registry and its   *)
(* connectors are shared.                                                  *)
(***************************************************************************)
\* the longest tool list of a concurrent request
MaxRunTools == 2

ConcurrentRuns == {1, 2}

ConcurrentTools == {"gemini", "custom"}

\* the requests of the two callers: each caller has its own workflow_id and
\* input_data
ConcurrentRequests(r) ==
    [workflow_id  : {IF r = 1 THEN "wf1" ELSE "wf2"},
     tools        : UNION {[1..n -> ConcurrentTools] : n \in 0..MaxRunTools},
     input_data   : {IF r = 1 THEN [prompt |-> "str"]
                              ELSE [prompt |-> "str", action |-> "get_file"]},
     strategy     : {"parallel", "sequential", "hybrid"},
     max_parallel : {1},
     timeout      : {DefaultTimeout},
     context      : {EmptyMap}]

\* the place in a run's log of a call that has not ended
NoAnswer == [resp |-> NoResponse, raised |-> FALSE]

\* a call of execute_orchestration that has not been made.  log is history:
\* for each call dispatched for the run, in dispatch order, the ToolResponse
\* it returned, or that an exception stands for when it raised
NoRun ==
    [pc |-> "idle", request |-> NoRequest, calls |-> <<>>, results |-> <<>>, batch |-> 0,
     now |-> 0, response |-> NoOrchestrationResponse, trace |-> <<>>, log |-> <<>>]

\* the dispatch of the tools ts by the run u
Dispatch(u, ts) ==
    [u EXCEPT !.calls = CreateTasks(ts, u.request, Len(u.trace)),
              !.trace = u.trace \o Dispatched(ts, u.now),
              !.log   = u.log \o [i \in 1..Len(ts) |-> NoAnswer]]

\* execute_orchestration returns r
Responded(u, r) ==
    [u EXCEPT !.response = r, !.pc = "done", !.calls = <<>>, !.results = <<>>, !.batch = 0]

\* execute_orchestration from its entry to its first await, or to its return
Started(req, registry) ==
    LET u           == [NoRun EXCEPT !.request = req]
        unavailable == UnavailableTools(req, registry)
    IN IF unavailable # <<>>
       THEN Responded(u, Failed(req, <<>>, [text |-> "Unavailable tools",
                                           ids |-> unavailable], 0))
       ELSE CASE req.strategy = "parallel" ->
                   [Dispatch(u, req.tools) EXCEPT !.pc = "parallel"]
              [] req.strategy = "sequential" ->
                   IF req.tools = <<>>
                   THEN Responded(u, Completed(req, <<>>, 0))
                   ELSE [Dispatch(u, <<req.tools[1]>>) EXCEPT !.pc = "sequential"]
              [] req.strategy = "hybrid" ->
                   IF req.max_parallel = 0
                   THEN Responded(u, Failed(req, <<>>,
                                            [text |-> "range() arg 3 must not be zero",
                                             ids |-> <<>>], 0))
                   ELSE LET bs == ToolBatches(req.tools, req.max_parallel) IN
                        IF bs = <<>>
                        THEN Responded(u, Completed(req, <<>>, 0))
                        ELSE [Dispatch(u, bs[1]) EXCEPT !.pc = "hybrid", !.batch = 1]
              [] OTHER ->
                   Responded(u, Failed(req, <<>>, [text |-> "Unknown strategy",
                                                   ids |-> <<req.strategy>>], 0))

\* the list a gather of the run hands back
Gathered(u) == ProcessedResults(u.calls)

\* the strategy function of the run goes on after its await: it returns, or
\* dispatches its next call or batch
Continued(u) ==
    CASE u.pc = "parallel" -> Responded(u, Completed(u.request, Gathered(u), u.now))
      [] u.pc = "hybrid" ->
           LET rs == u.results \o Gathered(u)
               bs == ToolBatches(u.request.tools, u.request.max_parallel)
           IN IF u.batch < Len(bs)
              THEN [Dispatch(u, bs[u.batch + 1]) EXCEPT !.batch = u.batch + 1, !.results = rs]
              ELSE Responded(u, Completed(u.request, rs, u.now))
      [] u.pc = "sequential" ->
           IF u.calls[1].stage = "raised"
           THEN Responded(u, Failed(u.request, <<>>,
                                    [text |-> u.calls[1].exc.text, ids |-> <<>>], u.now))
           ELSE LET rs == Append(u.results, u.calls[1].resp)
                    n  == Len(rs)
                IN IF StopOnError(u.calls[1].resp, u.request) \/ n = Len(u.request.tools)
                   THEN Responded(u, Completed(u.request, rs, u.now))
                   ELSE [Dispatch(u, <<u.request.tools[n + 1]>>) EXCEPT !.results = rs]

\* the call i of the run u ends as c
Ended(u, i, c) ==
    [u EXCEPT !.calls[i] = c,
              !.trace[c.k].end = u.now,
              !.log[c.k] = [resp |-> ProcessResult(c), raised |-> c.stage = "raised"]]

\* an engine with its connectors registered, and no call made
ConcurrentInit ==
    /\ tools = [t \in ConcurrentTools |-> NewConnector(t)]
    /\ runs = [r \in ConcurrentRuns |-> NoRun]
    /\ absent = {}
    /\ pc = "idle"
    /\ request = NoRequest
    /\ calls = <<>>
    /\ results = <<>>
    /\ batch = 0
    /\ now = 0
    /\ response = NoOrchestrationResponse
    /\ trace = <<>>
    /\ settings = {}
    /\ initialized = FALSE
    /\ reply = NoReply
    /\ history = NoHistory
    /\ health = NoHealth
    /\ workflow_templates = EmptyMap

\* what a step of a run leaves alone
beside == <<engine, facade, history, health, absent, store>>

\* a caller calls execute_orchestration
RunOrchestration(r, req) ==
    /\ runs[r].pc = "idle"
    /\ runs' = [runs EXCEPT ![r] = Started(req, tools)]
    /\ UNCHANGED <<tools, beside>>

\* a built-in execute of the run r from the end of _apply_rate_limit to its
\* request to the provider
RunProceed(r, i) ==
    LET c     == runs[r].calls[i]
        t     == c.request.tool_id
        fault == PreCallFault(t, c.request.input_data)
    IN IF fault # "none"
       THEN /\ runs' = [runs EXCEPT ![r] =
                          Ended(@, i, [c EXCEPT !.stage = "returned",
                                                !.resp = HandleError(t, fault)])]
            /\ tools' = [tools EXCEPT ![t].age = 0, ![t].status = "error"]
       ELSE /\ runs' = [runs EXCEPT ![r].calls[i].stage = "calling",
                                    ![r].calls[i].issued = TRUE]
            /\ tools' = [tools EXCEPT ![t].age = 0]

\* a task of the run r starts: execute runs to its first await
RunTaskStart(r, i) ==
    /\ i \in DOMAIN runs[r].calls
    /\ runs[r].calls[i].stage = "created"
    /\ \A j \in 1..(i - 1) : runs[r].calls[j].stage # "created"
    /\ LET t == runs[r].calls[i].request.tool_id IN
       IF t \in Custom
       THEN /\ runs' = [runs EXCEPT ![r].calls[i].stage = "calling",
                                    ![r].calls[i].issued = TRUE]
            /\ UNCHANGED tools
       ELSE IF tools[t].age < MinInterval(t)
            THEN /\ runs' = [runs EXCEPT ![r].calls[i].stage = "sleeping",
                                         ![r].calls[i].wake = MinInterval(t) - tools[t].age]
                 /\ UNCHANGED tools
            ELSE RunProceed(r, i)
    /\ UNCHANGED beside

\* the sleep of _apply_rate_limit of a call of the run r is over
RunWake(r, i) ==
    /\ i \in DOMAIN runs[r].calls
    /\ runs[r].calls[i].stage = "sleeping"
    /\ runs[r].calls[i].wake = 0
    /\ RunProceed(r, i)
    /\ UNCHANGED beside

\* the provider answers a call of the run r, or the request fails
RunProviderReturn(r, i, outcome) ==
    /\ i \in DOMAIN runs[r].calls
    /\ runs[r].calls[i].stage = "calling"
    /\ runs[r].calls[i].request.tool_id \in BuiltIn
    /\ LET u == runs[r]
           c == u.calls[i]
           t == c.request.tool_id
       IN IF outcome = "ok"
          THEN /\ runs' = [runs EXCEPT ![r] =
                             Ended(u, i, [c EXCEPT !.stage = "returned",
                                            !.resp = SuccessResponse(t, u.now - u.trace[c.k].start)])]
               /\ UNCHANGED tools
          ELSE /\ runs' = [runs EXCEPT ![r] =
                             Ended(u, i, [c EXCEPT !.stage = "returned",
                                                   !.resp = HandleError(t, outcome)])]
               /\ tools' = [tools EXCEPT ![t].status = "error"]
    /\ UNCHANGED beside

\* a custom connector's execute, called by the run r, returns or raises
RunCustomReturn(r, i, outcome) ==
    /\ i \in DOMAIN runs[r].calls
    /\ runs[r].calls[i].stage = "calling"
    /\ runs[r].calls[i].request.tool_id \in Custom
    /\ LET u == runs[r]
           c == u.calls[i]
           t == c.request.tool_id
       IN runs' = [runs EXCEPT ![r] =
                     IF outcome = "ok"
                     THEN Ended(u, i, [c EXCEPT !.stage = "returned",
                                         !.resp = SuccessResponse(t, u.now - u.trace[c.k].start)])
                     ELSE Ended(u, i, [c EXCEPT !.stage = "raised", !.exc = CustomError])]
    /\ UNCHANGED <<tools, beside>>

\* the awaits of the run r have all ended: its strategy function goes on
RunContinue(r) ==
    /\ runs[r].pc \in {"parallel", "sequential", "hybrid"}
    /\ \A i \in DOMAIN runs[r].calls : Finished(runs[r].calls[i])
    /\ runs' = [runs EXCEPT ![r] = Continued(@)]
    /\ UNCHANGED <<tools, beside>>

\* the caller of the run r takes the response
RunReturn(r) ==
    /\ runs[r].pc = "done"
    /\ runs' = [runs EXCEPT ![r] = NoRun]
    /\ UNCHANGED <<tools, beside>>

\* the run awaits a call
Awaiting(u) == u.pc \in {"parallel", "sequential", "hybrid"}

\* one second passes in every run that awaits: no task is about to start, no
\* sleep is over, and a provider answers within MaxWait seconds
RunTick ==
    /\ \E r \in ConcurrentRuns : Awaiting(runs[r])
    /\ \A r \in ConcurrentRuns : \A i \in DOMAIN runs[r].calls :
         LET c == runs[r].calls[i] IN
           /\ c.stage # "created"
           /\ c.stage = "sleeping" => c.wake > 0
           /\ c.stage = "calling" => runs[r].now - runs[r].trace[c.k].start < MaxWait
    /\ \A r \in ConcurrentRuns : Awaiting(runs[r]) =>
         \E i \in DOMAIN runs[r].calls : InFlight(runs[r].calls[i])
    /\ runs' = [r \in ConcurrentRuns |->
                  [runs[r] EXCEPT
                     !.now = IF Awaiting(runs[r]) THEN @ + 1 ELSE @,
                     !.calls = [i \in DOMAIN @ |->
                                  IF @[i].stage = "sleeping"
                                  THEN [@[i] EXCEPT !.wake = @ - 1] ELSE @[i]]]]
    /\ tools' = Aged(tools)
    /\ UNCHANGED beside

\* one second passes while no run awaits
RunIdleTick ==
    /\ \A r \in ConcurrentRuns : ~Awaiting(runs[r])
    /\ Aged(tools) # tools
    /\ tools' = Aged(tools)
    /\ UNCHANGED <<runs, beside>>

ConcurrentNext ==
    \/ \E r \in ConcurrentRuns : \E req \in ConcurrentRequests(r) : RunOrchestration(r, req)
    \/ \E r \in ConcurrentRuns, i \in 1..MaxRunTools : RunTaskStart(r, i)
    \/ \E r \in ConcurrentRuns, i \in 1..MaxRunTools : RunWake(r, i)
    \/ \E r \in ConcurrentRuns, i \in 1..MaxRunTools, o \in EngineOutcomes :
         RunProviderReturn(r, i, o)
    \/ \E r \in ConcurrentRuns, i \in 1..MaxRunTools, o \in CustomOutcomes :
         RunCustomReturn(r, i, o)
    \/ \E r \in ConcurrentRuns : RunContinue(r)
    \/ \E r \in ConcurrentRuns : RunReturn(r)
    \/ RunTick
    \/ RunIdleTick

ConcurrentSpec == ConcurrentInit /\ [][ConcurrentNext]_vars

(***************************************************************************)
(* The facade with all its entries: execute_tool, execute_orchestration,   *)
(* register_custom_tool, unregister_tool, and update_status on a           *)
(* connector, in any order around the first use.                           *)
(***************************************************************************)
\* the ids the facade's callers name
ServerTools == {"gemini", "figma", "custom"}

ServerInputs == {EmptyMap, [prompt |-> "str", action |-> "get_file"]}

\* the ToolRequests handed to execute_tool
ServerToolRequests ==
    [tool_id    : ServerTools,
     input_data : ServerInputs,
     parameters : {EmptyMap},
     context    : {EmptyMap},
     priority   : {1}]

\* the OrchestrationRequests handed to execute_orchestration
ServerRequests ==
    [workflow_id  : {"wf"},
     tools        : UNION {[1..n -> {"gemini", "custom"}] : n \in 1..MaxRunTools},
     input_data   : ServerInputs,
     strategy     : {"parallel", "sequential"},
     max_parallel : {DefaultMaxParallel},
     timeout      : {1},
     context      : {EmptyMap}]

\* MCPServer.execute_orchestration up to the first await of the engine, or to
\* its return
ServerExecuteOrchestration(req) ==
    /\ pc = "idle"
    /\ initialized' = TRUE
    /\ tools' = EnsureInitialized(tools, initialized, settings)
    /\ workflow_templates' = EnsureTemplates(workflow_templates, initialized)
    /\ Orchestrate(req, tools')
    /\ UNCHANGED <<settings, reply, aside>>

\* MCPServer.register_custom_tool: register_tool, with no _ensure_initialized
ServerRegisterCustomTool(t) ==
    /\ pc = "idle"
    /\ tools' = [x \in DOMAIN tools \cup {t} |-> IF x = t THEN NewConnector(t) ELSE tools[x]]
    /\ absent' = absent \ {t}
    /\ UNCHANGED <<engine, facade, history, health, runs, store>>

\* MCPServer.unregister_tool: unregister_tool of the engine, which does
\* nothing for an id that is not registered, with no _ensure_initialized
ServerUnregisterTool(t) ==
    /\ pc = "idle"
    /\ tools' = [x \in DOMAIN tools \ {t} |-> tools[x]]
    /\ absent' = absent \cup {t}
    /\ UNCHANGED <<engine, facade, history, health, runs, store>>

ServerNext ==
    \/ \E treq \in ServerToolRequests : ExecuteTool(treq)
    \/ ToolReturn
    \/ TakeReply
    \/ ToolTick
    \/ \E req \in ServerRequests : ServerExecuteOrchestration(req)
    \/ \E i \in 1..MaxRunTools : TaskStart(i)
    \/ \E i \in 1..MaxRunTools : Wake(i)
    \/ \E i \in 1..MaxRunTools, o \in EngineOutcomes : ProviderReturn(i, o)
    \/ \E i \in 1..MaxRunTools, o \in CustomOutcomes : CustomReturn(i, o)
    \/ \E i \in 1..MaxRunTools : pc # "tool" /\ Timeout(i)
    \/ Tick
    \/ IdleTick
    \/ GatherParallel
    \/ SequentialStep
    \/ Return
    \/ \E t \in ServerTools, st \in StatusUpdates : UpdateStatus(t, st)
    \/ \E t \in Custom : ServerRegisterCustomTool(t)
    \/ \E t \in ServerTools : ServerUnregisterTool(t)

ServerSpec == FacadeInit /\ [][ServerNext]_vars

(***************************************************************************)
(* health_check_all_tools, with the registry changing under it.            *)
(***************************************************************************)
\* entries the dict of the registry holds before it is rebuilt
MaxSlots == 5

\* the connectors registered and unregistered here
HealthTools == {"gemini", "figma", "custom"}

\* what a connector's health_check does: the built-in ones catch their
\* exceptions and return False
HealthOutcomes == {"healthy", "unhealthy", "raise"}

\* the orders in which a dict may hold the keys S
Orders(S) == {o \in [1..Cardinality(S) -> S] : \A i, j \in DOMAIN o : o[i] = o[j] => i = j}

\* next() of the iterator of `for tool_id, tool in self.tools.items()`
NextItem(h, registry) ==
    IF Cardinality(DOMAIN registry) # h.size
    THEN [h EXCEPT !.pc = "raised", !.probe = ""]
    ELSE LET later == {i \in (h.pos + 1)..Len(h.slots) : h.slots[i] # ""} IN
         IF later = {} THEN [h EXCEPT !.pc = "done", !.probe = ""]
         ELSE IF h.left = 0 THEN [h EXCEPT !.pc = "raised", !.probe = ""]
         ELSE LET i == CHOOSE x \in later : \A y \in later : x <= y
              IN [h EXCEPT !.pc = "awaiting", !.pos = i, !.left = @ - 1,
                           !.probe = h.slots[i]]

\* health_status[tool_id] = value
Put(map, key, value) == [k \in DOMAIN map \cup {key} |-> IF k = key THEN value ELSE map[k]]

\* health_check_all_tools from its entry to its first await, or to its return
HealthCheckAllTools ==
    /\ health.pc = "idle"
    /\ \E order \in Orders(DOMAIN tools) :
         health' = NextItem([NoHealth EXCEPT !.slots = order,
                                             !.size  = Cardinality(DOMAIN tools),
                                             !.left  = Cardinality(DOMAIN tools)], tools)
    /\ UNCHANGED <<tools, engine, facade, history, runs, absent, store>>

\* tool.health_check() returns or raises: the result is stored, False for an
\* exception, and the loop goes on to its next await or ends
ProbeReturn(outcome) ==
    /\ health.pc = "awaiting"
    /\ outcome = "raise" => health.probe \in Custom
    /\ health' = NextItem([health EXCEPT !.status = Put(@, health.probe, outcome = "healthy")],
                          tools)
    /\ UNCHANGED <<tools, engine, facade, history, runs, absent, store>>

\* the caller takes the map, or the exception
HealthReturn ==
    /\ health.pc \in {"done", "raised"}
    /\ health' = NoHealth
    /\ UNCHANGED <<tools, engine, facade, history, runs, absent, store>>

HealthNext ==
    \/ \E t \in HealthTools : RegisterTool(t) /\ Len(health.slots) < MaxSlots
    \/ \E t \in HealthTools : UnregisterTool(t)
    \/ HealthCheckAllTools
    \/ \E o \in HealthOutcomes : ProbeReturn(o)
    \/ HealthReturn

HealthSpec == Init /\ [][HealthNext]_vars

(***************************************************************************)
(* Properties of execute_orchestration.                                    *)
(***************************************************************************)
Range(seq) == {seq[i] : i \in DOMAIN seq}

\* the ids of a request that are unregistered or whose connector is not available
Unavailable(req, registry) ==
    {t \in Range(req.tools) :
       \/ t \notin DOMAIN registry
       \/ t \in DOMAIN registry /\ registry[t].status # "available"}

\* a call to execute_orchestration is made in this step
Called == pc = "idle" /\ pc' # "idle"

\* C1: a request that lists an unregistered or not available tool returns at
\* once with success=false, no results and exactly one error that names every
\* unavailable id; no call is created for it, whatever the strategy
C1_ValidationFailure ==
    [][(Called /\ Unavailable(request', tools) # {}) =>
         /\ pc' = "done"
         /\ response'.success = FALSE
         /\ response'.results = <<>>
         /\ Len(response'.errors) = 1
         /\ response'.errors[1].text = "Unavailable tools"
         /\ Range(response'.errors[1].ids) = Unavailable(request', tools)
         /\ calls' = <<>>
         /\ trace' = <<>>
         /\ tools' = tools]_vars

\* C1 witness: a hybrid request naming an unregistered tool and one in error
\* status was rejected
C1_Witness ==
    /\ pc = "done"
    /\ request.strategy = "hybrid"
    /\ response.errors # <<>>
    /\ response.errors[1].text = "Unavailable tools"
    /\ \E t \in Range(response.errors[1].ids) : t \notin DOMAIN tools
    /\ \E t \in Range(response.errors[1].ids) : t \in DOMAIN tools /\ tools[t].status = "error"

\* the response's top-level error, if any, is the validation failure
Rejected == response.errors # <<>> /\ response.errors[1].text = "Unavailable tools"

KnownStrategy == request.strategy \in {"parallel", "sequential", "hybrid"}

\* an exception left the dispatch itself: range() in _execute_hybrid, or a
\* connector's exception in _execute_sequential
Escaped ==
    /\ response.errors # <<>>
    /\ response.errors[1].text \in {"range() arg 3 must not be zero", CustomError.text}

\* the failed results of rs, in order, as aggregated_output.errors lists them
FailedEntries(rs) ==
    LET bad(r) == ~r.success
        failed == SelectSeq(rs, bad)
    IN [i \in DOMAIN failed |-> [tool_id |-> failed[i].tool_id, error |-> failed[i].error_message]]

C3_ParallelPositions ==
    [][(pc = "parallel" /\ pc' = "done") =>
         /\ response'.success
         /\ Len(response'.results) = Len(request.tools)
         /\ \A i \in DOMAIN request.tools :
              LET r == response'.results[i] IN
              /\ r.tool_id = request.tools[i]
              /\ calls[i].stage = "raised" =>
                   (~r.success /\ r.error_message = calls[i].exc /\ r.output_data = EmptyMap)
              /\ calls[i].timedout => ~r.success
              /\ calls[i].stage = "returned" => r = calls[i].resp]_vars

\* C3 witness: a parallel orchestration whose second call ended before its
\* first, with a raised call reported at its position beside a successful one
C3_Witness ==
    /\ pc = "done"
    /\ request.strategy = "parallel"
    /\ Len(response.results) >= 2
    /\ trace[2].end < trace[1].end
    /\ response.results[2].error_message = CustomError
    /\ response.results[1].success

\* C4: under the sequential strategy a call that raises becomes a failed
\* ToolResponse of its tool, after the responses collected before it, and the
\* exception does not reach the top-level errors
C4_SequentialException ==
    [][(pc = "sequential" /\ calls[1].stage = "raised") =>
         LET rs == IF pc' = "done" THEN response'.results ELSE results' IN
         /\ Len(rs) = Len(results) + 1
         /\ SubSeq(rs, 1, Len(results)) = results
         /\ ~rs[Len(rs)].success
         /\ rs[Len(rs)].tool_id = calls[1].request.tool_id
         /\ pc' = "done" => response'.errors = <<>>]_vars

StopRequested == "stop_on_error" \in DOMAIN request.context /\ request.context["stop_on_error"]

\* C5: sequential with stop_on_error=true returns exactly the prefix of the
\* tool list up to and including the first tool whose response failed, and
\* dispatches no tool after it; when no tool fails, all are dispatched and
\* reported
C5_StopOnErrorPrefix ==
    (pc = "done" /\ request.strategy = "sequential" /\ StopRequested /\ ~Rejected) =>
      LET rs == response.results
          n  == Len(rs)
      IN /\ n <= Len(request.tools)
         /\ \A i \in DOMAIN rs : rs[i].tool_id = request.tools[i]
         /\ \A i \in 1..(n - 1) : rs[i].success
         /\ Len(trace) = n
         /\ \A i \in DOMAIN trace : trace[i].tool_id = request.tools[i]
         /\ (\A i \in DOMAIN rs : rs[i].success) => n = Len(request.tools)

\* the batch a tool-list position belongs to when batches hold k tools
BatchOf(i, k) == ((i - 1) \div k) + 1

\* ceil(n / k)
CeilDiv(n, k) == (n + k - 1) \div k

\* the calls of a hybrid orchestration dispatched so far are those of the
\* first `batch` batches of k tools, each call of a batch started at one
\* instant, after every call of the batches before it had ended
HybridBatches ==
    (pc = "hybrid" /\ request.max_parallel >= 1) =>
      LET k == request.max_parallel
          n == Len(request.tools)
      IN /\ batch \in 1..CeilDiv(n, k)
         /\ Len(trace) = Min(batch * k, n)
         /\ Len(results) = (batch - 1) * k
         /\ Len(calls) = Len(trace) - Len(results)
         /\ \A i \in DOMAIN calls : calls[i].k = Len(results) + i
         /\ \A i \in DOMAIN trace :
              /\ trace[i].tool_id = request.tools[i]
              /\ BatchOf(i, k) < batch => trace[i].end >= trace[i].start
              /\ \A j \in DOMAIN trace :
                   /\ BatchOf(i, k) = BatchOf(j, k) => trace[i].start = trace[j].start
                   /\ BatchOf(i, k) < BatchOf(j, k) => trace[i].end <= trace[j].start

\* C6: hybrid with max_parallel = k >= 1 dispatches the N tools as ceil(N/k)
\* consecutive batches of k (the last may be smaller), starts no call of a
\* batch before every call of the batch before it has ended, starts the calls
\* of one batch together, and returns the responses in tool-list order
C6_HybridBatches ==
    [][/\ HybridBatches'
       /\ (pc = "hybrid" /\ pc' = "done" /\ request.max_parallel >= 1) =>
            /\ batch = CeilDiv(Len(request.tools), request.max_parallel)
            /\ Len(response'.results) = Len(request.tools)
            /\ \A i \in DOMAIN request.tools :
                 response'.results[i].tool_id = request.tools[i]]_vars

\* C6 witness: the second batch (one call) of three tools with max_parallel=2
\* is in flight after a first batch whose two calls awaited their providers
\* together
C6_Witness ==
    /\ pc = "hybrid"
    /\ request.max_parallel = 2
    /\ Len(request.tools) = 3
    /\ batch = 2
    /\ Len(calls) = 1
    /\ calls[1].stage = "calling"
    /\ trace[1].end > trace[1].start
    /\ trace[2].end > trace[2].start
    /\ trace[3].start >= trace[1].end

RECURSIVE MaxEnd(_)
MaxEnd(tr) == IF tr = <<>> THEN 0 ELSE Max(Head(tr).end, MaxEnd(Tail(tr)))

RECURSIVE SumEnd(_)
SumEnd(tr) == IF tr = <<>> THEN 0 ELSE Head(tr).end + SumEnd(Tail(tr))

\* C7: under the parallel strategy every call is started before the engine
\* waits (all at time 0), and the orchestration completes when the slowest
\* call ends, not after the sum of the calls' times
C7_ParallelMaxTime ==
    /\ pc = "parallel" =>
         /\ Len(calls) = Len(request.tools)
         /\ Len(trace) = Len(request.tools)
         /\ \A i \in DOMAIN trace : trace[i].start = 0 /\ trace[i].tool_id = request.tools[i]
    /\ (pc = "done" /\ request.strategy = "parallel" /\ ~Rejected) =>
         /\ Len(trace) = Len(request.tools)
         /\ response.total_execution_time = MaxEnd(trace)

\* C7 witness: two distinct tools, neither timed out, took 1 and 2 seconds
\* and the orchestration took 2
C7_Witness ==
    /\ pc = "done"
    /\ request.strategy = "parallel"
    /\ Len(request.tools) = 2
    /\ request.tools[1] # request.tools[2]
    /\ Len(response.results) = 2
    /\ \A i \in DOMAIN response.results : response.results[i].success
    /\ {trace[1].end, trace[2].end} = {1, 2}
    /\ response.total_execution_time = 2
    /\ SumEnd(trace) = 3

\* C8: a call still awaiting when its timeout expires is abandoned then and
\* reported as a failed ToolResponse with empty output, execution_time equal
\* to the timeout and an error naming the timeout; no call awaits longer than
\* its own timeout, counted from its own dispatch, and a call timing out
\* changes no other call
C8_Timeout ==
    [][/\ \A i \in DOMAIN calls' :
            LET c == calls'[i] IN
            /\ InFlight(c) => now' - trace'[c.k].start <= request'.timeout
            /\ c.timedout =>
                 /\ c.stage = "returned"
                 /\ c.resp.tool_id = c.request.tool_id
                 /\ c.resp.success = FALSE
                 /\ c.resp.output_data = EmptyMap
                 /\ c.resp.execution_time = request'.timeout
                 /\ c.resp.error_message.text = "Tool execution timed out after %d seconds"
                 /\ c.resp.error_message.arg = request'.timeout
                 /\ trace'[c.k].end - trace'[c.k].start = request'.timeout
       /\ \A i \in DOMAIN calls :
            (DOMAIN calls' = DOMAIN calls /\ ~calls[i].timedout /\ calls'[i].timedout) =>
              /\ calls[i].stage \in {"sleeping", "calling"}
              /\ now - trace[calls[i].k].start = request.timeout
              /\ \A j \in DOMAIN calls \ {i} : calls'[j] = calls[j]
              /\ tools' = tools]_vars

\* C8 witness: in a sequential orchestration the first call timed out and the
\* second, dispatched then, timed out after its own full timeout
C8_Witness ==
    /\ pc = "sequential"
    /\ request.timeout = 2
    /\ Len(results) = 1
    /\ results[1].error_message = [text |-> "Tool execution timed out after %d seconds", arg |-> 2]
    /\ results[1].execution_time = 2
    /\ calls[1].timedout
    /\ trace[2].start = 2
    /\ trace[2].end = 4


(***************************************************************************)
(* Properties of the built-in connectors' execute.                         *)
(***************************************************************************)
\* the call of execute is on a built-in connector whose validate_input
\* rejects the request's input_data
InvalidCall(c) ==
    /\ c.request.tool_id \in BuiltIn
    /\ ~ValidateInput(c.request.tool_id, c.request.input_data)

\* C9: for every built-in connector and every ToolRequest whose input_data
\* fails the connector's validate_input, the request to the provider is never
\* issued, and execute returns (never raises) a ToolResponse with
\* success = false whose error message is "Invalid input data", which the
\* facade hands to the caller
C9_InvalidInput ==
    \A i \in DOMAIN calls :
      InvalidCall(calls[i]) =>
        /\ ~calls[i].issued
        /\ calls[i].stage \in {"created", "sleeping", "returned"}
        /\ calls[i].stage = "returned" =>
             /\ calls[i].resp.tool_id = calls[i].request.tool_id
             /\ ~calls[i].resp.success
             /\ calls[i].resp.error_message.text = "Invalid input data"
        /\ pc = "replied" => reply.status = 200 /\ reply.body = calls[i].resp

\* C9 witness: a figma request without "action" has waited out the rate limit
\* and has come back as a failed response, with no request sent to Figma
C9_Witness ==
    /\ pc = "replied"
    /\ calls # <<>>
    /\ calls[1].request.tool_id = "figma"
    /\ calls[1].request.input_data = EmptyMap
    /\ trace[1].end = 1
    /\ ~calls[1].issued
    /\ reply.status = 200
    /\ ~reply.body.success
    /\ reply.body.error_message.text = "Invalid input data"


\* execute of a built-in connector has just met a fault: its input is
\* rejected or its action unknown once the rate-limit step is over, or the
\* request to the provider fails, answers with an error status or answers
\* with a payload that cannot be mapped
FaultStep(i) ==
    \/ /\ calls[i].request.tool_id \in BuiltIn
       /\ \/ TaskStart(i)
          \/ Wake(i)
       /\ calls'[i].stage # "sleeping"
       /\ PreCallFault(calls[i].request.tool_id, calls[i].request.input_data) # "none"
    \/ \E o \in ProviderOutcomes \ {"ok"} : ProviderReturn(i, o)

\* C10: every fault a built-in connector's execute meets comes back as a
\* ToolResponse with success = false, an error_message that is not None and
\* an empty output_data; execute of a built-in connector never raises, so the
\* facade never answers 500 for one
C10_FaultsReturned ==
    /\ [][\A i \in DOMAIN calls :
            FaultStep(i) =>
              /\ calls'[i].stage = "returned"
              /\ calls'[i].resp.tool_id = calls[i].request.tool_id
              /\ ~calls'[i].resp.success
              /\ calls'[i].resp.error_message # NoMessage
              /\ calls'[i].resp.output_data = EmptyMap]_vars
    /\ [](\A i \in DOMAIN calls :
            calls[i].request.tool_id \in BuiltIn =>
              /\ calls[i].stage # "raised"
              /\ pc = "replied" => reply.status = 200 /\ reply.body = calls[i].resp)

\* C10 witness: OpenAI has answered a valid request with a payload that
\* cannot be mapped, and the caller has a failed response for it
C10_Witness ==
    /\ pc = "replied"
    /\ calls # <<>>
    /\ calls[1].request.tool_id = "openai"
    /\ calls[1].issued
    /\ reply.status = 200
    /\ ~reply.body.success
    /\ reply.body.metadata = [error_type |-> "KeyError"]


(***************************************************************************)
(* Properties of the aggregation.                                          *)
(***************************************************************************)
\* the response is the one execute_orchestration returns after aggregation
Aggregated == pc = "done" /\ response.errors = <<>>

\* the `text` fields of the successful responses of rs that have one, in order
RECURSIVE Texts(_)
Texts(rs) ==
    IF rs = <<>> THEN <<>>
    ELSE LET r == Head(rs) IN
         (IF r.success /\ "text" \in DOMAIN r.output_data
          THEN <<r.output_data["text"]>> ELSE <<>>) \o Texts(Tail(rs))

\* "\n".join(ts): the separator stands between items only
RECURSIVE Joined(_)
Joined(ts) ==
    IF Len(ts) <= 1 THEN ts
    ELSE <<Head(ts), "\n">> \o Joined(Tail(ts))

\* C11: combined_output.text is the newline-joined concatenation, separator
\* between items only, in dispatch order, of the `text` field of every
\* successful response that has one; the key is absent when there is none
C11_CombinedText ==
    Aggregated =>
      LET ts  == Texts(response.results)
          out == response.aggregated_output.combined_output
      IN IF ts = <<>> THEN "text" \notin DOMAIN out
         ELSE "text" \in DOMAIN out /\ out["text"] = Joined(ts)

\* what _aggregate_results builds instead: a separator before every item, the
\* first included
C11_LeadingSeparator ==
    Aggregated =>
      LET ts  == Texts(response.results)
          out == response.aggregated_output.combined_output
      IN IF ts = <<>> THEN "text" \notin DOMAIN out
         ELSE "text" \in DOMAIN out /\ out["text"] = <<"\n">> \o Joined(ts)

\* the sum of the costs of rs, a missing cost counting as 0
RECURSIVE SumCosts(_)
SumCosts(rs) ==
    IF rs = <<>> THEN 0
    ELSE (IF Head(rs).cost = NoCost THEN 0 ELSE Head(rs).cost) + SumCosts(Tail(rs))

\* C12: after aggregation total_cost is the sum of the costs of the responses
\* in results, a missing cost counting as 0 and the costs of failed responses
\* included; a tool that was never dispatched has no response and adds nothing
C12_TotalCost ==
    Aggregated =>
      /\ response.total_cost = SumCosts(response.results)
      /\ Len(response.results) = Len(trace)
      /\ \A i \in DOMAIN response.results : response.results[i].tool_id = trace[i].tool_id

\* C12 witness: a sequential orchestration stopped at a failed gemini response
\* that carries a cost, after a custom response without cost, the third tool
\* never dispatched
C12_Witness ==
    /\ Aggregated
    /\ Len(request.tools) = 3
    /\ Len(response.results) = 2
    /\ response.results[1].success /\ response.results[1].cost = NoCost
    /\ ~response.results[2].success /\ response.results[2].cost = 1
    /\ response.total_cost = 1


(***************************************************************************)
(* Properties of the facade.                                               *)
(***************************************************************************)
\* the caller's last two exchanges carried the same ToolRequest
Repeated ==
    /\ Len(history.log) = 2
    /\ history.log[1].request = history.log[2].request

\* C13: execute_tool called twice in succession with the same ToolRequest on a
\* registered connector whose provider is deterministic returns two
\* ToolResponses with equal output_data, whether the outcome is a success or
\* a failure
C13_Idempotent ==
    (Repeated /\ history.log[1].status = 200) =>
      /\ history.log[2].status = 200
      /\ history.log[2].output_data = history.log[1].output_data

\* what holds instead: a request repeated after a successful response gets
\* the same output_data; repeated after a failed response it is rejected as
\* unavailable and gets no ToolResponse
C13_AfterSuccess ==
    (Repeated /\ history.log[1].status = 200) =>
      IF history.log[1].outcome = "ok"
      THEN /\ history.log[2].status = 200
           /\ history.log[2].output_data = history.log[1].output_data
      ELSE history.log[2].status = 503


(***************************************************************************)
(* execute_orchestration always returns.                                   *)
(***************************************************************************)
InProgress == pc \in {"parallel", "sequential", "hybrid"}

\* C14: execute_orchestration never raises.  Whatever the tool list, the
\* strategy string, max_parallel, the timeout and what the connectors do
\* (return, raise, never return), the call ends, within the timeouts of its
\* calls, by returning an OrchestrationResponse with the request's
\* workflow_id; an unknown strategy and an exception leaving the dispatch
\* give success=false with one error
C14_AlwaysResponds ==
    /\ [](InProgress => now <= Len(request.tools) * request.timeout)
    /\ [](pc = "done" =>
            /\ response.workflow_id = request.workflow_id
            /\ response.success = (response.errors = <<>>)
            /\ ~KnownStrategy => (~response.success /\ Len(response.errors) = 1))
    /\ [][/\ Called => (InProgress' \/ pc' = "done")
          /\ (Called /\ pc' = "done" /\ request'.strategy = "hybrid"
                /\ request'.max_parallel = 0 /\ Unavailable(request', tools) = {}) =>
               (~response'.success /\ Len(response'.errors) = 1)
          /\ (InProgress /\ ~InProgress') => pc' = "done"
          /\ (InProgress /\ pc' = "done"
                /\ \E i \in DOMAIN calls : calls[i].stage = "raised" /\ pc = "sequential") =>
               (~response'.success /\ Len(response'.errors) = 1)]_vars

\* C14 witness: a request with a strategy the engine does not know, on
\* registered tools, came back as a failed response with the request's id
C14_Witness ==
    /\ pc = "done"
    /\ request.strategy = "round_robin"
    /\ request.tools # <<>>
    /\ Unavailable(request, tools) = {}
    /\ response.workflow_id = "wf"
    /\ ~response.success
    /\ response.errors[1].text = "Unknown strategy"


\* the connectors execute_tool finds once _ensure_initialized has run
Registered == IF initialized THEN DOMAIN tools ELSE DOMAIN tools \cup settings

\* the status execute_tool reads of a connector it finds
StatusFound(t) ==
    IF ~initialized /\ t \in settings THEN "available" ELSE tools[t].status

\* C15: execute_tool rejects a request whose tool is not registered as not
\* found (404) and one whose tool is registered but not available as
\* unavailable (503), in both cases with no connector's execute invoked;
\* otherwise it invokes the connector's execute once, with the request, and
\* returns that call's ToolResponse
C15_ExecuteTool ==
    /\ [][\A treq \in ToolRequests :
            ExecuteTool(treq) =>
              IF treq.tool_id \notin Registered
              THEN /\ reply'.status = 404
                   /\ pc' = "replied"
                   /\ calls' = <<>> /\ trace' = <<>>
                   /\ \A t \in DOMAIN tools : tools'[t] = tools[t]
              ELSE IF StatusFound(treq.tool_id) # "available"
              THEN /\ reply'.status = 503
                   /\ pc' = "replied"
                   /\ calls' = <<>> /\ trace' = <<>>
                   /\ \A t \in DOMAIN tools : tools'[t] = tools[t]
              ELSE /\ pc' = "tool"
                   /\ reply' = NoReply
                   /\ Len(calls') = 1 /\ Len(trace') = 1
                   /\ calls'[1].request = treq
                   /\ calls'[1].stage = "created"]_vars
    /\ [](pc = "tool" => Len(calls) = 1 /\ Len(trace) = 1 /\ reply = NoReply)
    /\ []((pc = "replied" /\ reply.status \in {404, 503}) => calls = <<>>)
    /\ []((pc = "replied" /\ reply.status \notin {404, 503}) =>
            /\ Len(calls) = 1 /\ Len(trace) = 1
            /\ calls[1].stage = "returned" => (reply.status = 200 /\ reply.body = calls[1].resp)
            /\ calls[1].stage = "raised" => reply.status = 500)

\* C15 witness: a request for a registered connector left in error status is
\* rejected as unavailable, no call made
C15_Witness ==
    /\ pc = "replied"
    /\ reply.status = 503
    /\ calls = <<>>
    /\ \E t \in DOMAIN tools : tools[t].status = "error"


(***************************************************************************)
(* Properties of the aggregate health check.                               *)
(***************************************************************************)
\* health_check_all_tools returns its map in this step
HealthDone == health.pc # "done" /\ health'.pc = "done"

\* the map has one boolean per connector registered, keyed by tool id
OnePerConnector(status, registry) ==
    /\ DOMAIN status = DOMAIN registry
    /\ \A t \in DOMAIN status : status[t] \in BOOLEAN

\* C16: the aggregate health check returns a map with one boolean per
\* connector registered, keyed by tool id, false for a connector whose
\* health_check raised (the others still probed), and an empty map when no
\* connector is registered; also when a register or unregister interleaves
\* with its probes
C16_HealthCheck ==
    [][/\ health'.pc # "raised"
       /\ HealthDone => OnePerConnector(health'.status, tools')
       /\ \A o \in HealthOutcomes :
            ProbeReturn(o) => health'.status[health.probe] = (o = "healthy")]_vars

\* what holds: the same, for a health check whose awaits no register or
\* unregister interleaves with
C16_Undisturbed ==
    [][~health'.changed =>
         /\ health'.pc # "raised"
         /\ HealthDone => OnePerConnector(health'.status, tools')
         /\ \A o \in HealthOutcomes :
              ProbeReturn(o) => health'.status[health.probe] = (o = "healthy")]_vars


(***************************************************************************)
(* C17: executing a workflow template.                                     *)
(***************************************************************************)
\* the step in which execute_workflow_template finds the template and builds
\* the request from it
TemplateExecuted(template_id, input_data, context) ==
    /\ ExecuteWorkflowTemplate(template_id, input_data, context)
    /\ template_id \in DOMAIN workflow_templates'

\* the context is the template's parameters overlaid by the caller's context
Overlaid(merged, parameters, context) ==
    /\ DOMAIN merged = DOMAIN parameters \cup DOMAIN context
    /\ \A k \in DOMAIN context : merged[k] = context[k]
    /\ \A k \in DOMAIN parameters \ DOMAIN context : merged[k] = parameters[k]

\* C17: executing a workflow template builds a request whose tool list and
\* strategy are the template's and whose context is the template's parameter
\* map overlaid by the caller's context (the caller's value on a key of both,
\* every other key kept), and the execution never modifies a stored template
C17_TemplateExecution ==
    /\ [][\A template_id \in TemplateIds, input_data \in TemplateInputs,
            context \in CallerContexts :
            TemplateExecuted(template_id, input_data, context) =>
              LET template == BuiltInTemplates[template_id] IN
                /\ request'.tools = template.tools
                /\ request'.strategy = template.strategy
                /\ request'.input_data = input_data
                /\ Overlaid(request'.context, template.parameters, context)
                /\ workflow_templates' = BuiltInTemplates]_vars
    /\ [][initialized => workflow_templates' = workflow_templates]_vars
    /\ [](initialized => workflow_templates = BuiltInTemplates)

\* a template run whose caller context collided with a template parameter has
\* been answered by the engine
C17_Witness ==
    /\ pc = "done"
    /\ response.success
    /\ Len(response.results) = 3
    /\ request.strategy = "hybrid"
    /\ request.tools = BuiltInTemplates["design_workflow"].tools
    /\ request.context = [format |-> "svg", language |-> "typescript",
                          temperature |-> "0.1", user |-> "u"]
    /\ workflow_templates["design_workflow"].parameters.format = "png"


(***************************************************************************)
(* C19: the rate limiter when calls on one connector overlap.              *)
(***************************************************************************)
\* the step in which call i sends its request to the provider
Issues(i) ==
    /\ i \in DOMAIN calls
    /\ i \in DOMAIN calls'
    /\ ~calls[i].issued
    /\ calls'[i].issued

\* another call of the same orchestration has sent its request to the same
\* provider: the connector's age is then the time since that request, the
\* calls of one orchestration carrying the same input_data
IssuedBefore(i) ==
    \E j \in DOMAIN calls :
       /\ j # i
       /\ calls[j].request.tool_id = calls[i].request.tool_id
       /\ calls[j].issued

\* C19: when execute calls on one rate-limited connector overlap (the tool
\* listed twice in one parallel request), any two outbound provider calls of
\* the connector are issued at least 60/R seconds apart
C19_OverlapSerialized ==
    [][\A i \in 1..MaxTools :
         (/\ Issues(i)
          /\ calls[i].request.tool_id \in BuiltIn
          /\ IssuedBefore(i))
         => tools[calls[i].request.tool_id].age >= MinInterval(calls[i].request.tool_id)]_vars


(***************************************************************************)
(* C20: the rate limiter when the calls on a connector do not overlap.     *)
(***************************************************************************)
\* 60/R seconds in ticks, for a connector with a rate limit
Spacing(t) == CeilDiv(60, rate_limit[t])

\* the tool of the call execute_tool awaits
Callee == calls[1].request.tool_id

\* the step in which the call leaves _apply_rate_limit
Passes ==
    /\ pc = "tool"
    /\ calls[1].stage \in {"created", "sleeping"}
    /\ calls'[1].stage \notin {"created", "sleeping"}

\* the step in which the call starts to sleep in _apply_rate_limit
Suspends ==
    /\ pc = "tool"
    /\ calls[1].stage = "created"
    /\ calls'[1].stage = "sleeping"

\* the step in which execute is entered
Enters ==
    /\ pc = "tool"
    /\ calls[1].stage = "created"
    /\ calls'[1].stage # "created"

\* no connector but t changes
OthersUntouched(t) ==
    \A u \in DOMAIN tools : u # t => u \in DOMAIN tools' /\ tools'[u] = tools[u]

RespondsBeside(r) ==
    /\ runs # <<>>
    /\ runs[r].pc # "done"
    /\ runs'[r].pc = "done"
    /\ \E q \in ConcurrentRuns \ {r} :
         \E i \in DOMAIN runs[q].calls : InFlight(runs[q].calls[i])

\* the response holds the answers of the run's own calls in dispatch order,
\* every ToolResponse one of them returned among them, and is computed from
\* them
OwnResults(u) ==
    LET rs == u.response.results IN
    /\ u.response.workflow_id = u.request.workflow_id
    /\ Len(rs) <= Len(u.log)
    /\ \A k \in DOMAIN rs : rs[k] = u.log[k].resp
    /\ \A k \in DOMAIN u.log : ~u.log[k].raised => k \in DOMAIN rs
    /\ u.response.success =>
         /\ u.response.aggregated_output = AggregateResults([k \in DOMAIN rs |-> u.log[k].resp])
         /\ u.response.total_cost = TotalCost([k \in DOMAIN rs |-> u.log[k].resp])

\* C18: when two orchestration calls run concurrently on one engine, each
\* response's results are exactly the ToolResponses of the calls dispatched
\* for its own request, and its aggregated_output and total_cost are
\* computed from them
C18_OwnResults ==
    [][\A r \in ConcurrentRuns : RespondsBeside(r) => OwnResults(runs'[r])]_vars

\* the same of every response but that of a sequential run left by an
\* exception of its call
C18_OwnResultsUnlessRaised ==
    [][\A r \in ConcurrentRuns :
         (/\ RespondsBeside(r)
          /\ ~(runs[r].pc = "sequential" /\ runs[r].calls[1].stage = "raised"))
         => OwnResults(runs'[r])]_vars


(***************************************************************************)
(* C21: the sequential strategy.                                           *)
(***************************************************************************)
\* the calls of a sequential orchestration dispatched so far follow the tool
\* list, one at a time: each started when the one before it had ended
Serialized ==
    pc = "sequential" =>
      /\ Len(calls) = 1
      /\ Len(trace) <= Len(request.tools)
      /\ calls[1].k = Len(trace)
      /\ \A k \in DOMAIN trace :
           /\ trace[k].tool_id = request.tools[k]
           /\ k < Len(trace) => /\ trace[k].end >= trace[k].start
                                /\ trace[k + 1].start >= trace[k].end

\* the step in which a sequential orchestration that passed validation returns
SequentialReturns ==
    /\ pc = "sequential"
    /\ pc' = "done"

\* one response per listed tool, in list order
OnePerListedTool(rs, ts) ==
    /\ Len(rs) = Len(ts)
    /\ \A i \in DOMAIN rs : rs[i].tool_id = ts[i]

\* C21: under the sequential strategy at most one call of the orchestration is
\* in flight, calls are issued in tool-list order, each after the one before
\* it has returned or timed out, and without stop_on_error every listed tool
\* is dispatched even after failures: results has one response per listed
\* tool, in list order
C21_Sequential ==
    /\ []Serialized
    /\ [][SequentialReturns /\ ~StopRequested =>
            /\ Len(trace) = Len(request.tools)
            /\ OnePerListedTool(response'.results, request.tools)]_vars

\* the same, of every return but the one an exception of the call causes
C21_SequentialUnlessRaised ==
    /\ []Serialized
    /\ [][SequentialReturns /\ ~StopRequested /\ calls[1].stage # "raised" =>
            /\ Len(trace) = Len(request.tools)
            /\ OnePerListedTool(response'.results, request.tools)]_vars


(***************************************************************************)
(* C22: the execution_time of a failed execute.                            *)
(***************************************************************************)
\* C22: when a built-in connector's execute ends in failure (invalid input,
\* network error, HTTP error, malformed response) the execution_time of the
\* ToolResponse it returns is the time elapsed since that execute started
C22_FailureTime ==
    [][\A i \in DOMAIN calls :
         FaultStep(i) =>
           calls'[i].resp.execution_time = now - trace[calls[i].k].start]_vars

\* the same of an execute that ends in success
C22_SuccessTime ==
    [][\A i \in DOMAIN calls :
         ProviderReturn(i, "ok") =>
           calls'[i].resp.execution_time = now - trace[calls[i].k].start]_vars


(***************************************************************************)
(* C23: a timed-out call and a faulted call.                               *)
(***************************************************************************)
\* the effect of a fault of a call on tool t: the response's success,
\* output_data and cost, and the connector's status afterwards
FaultEffect(t) ==
    [success     |-> HandleError(t, "http_error").success,
     output_data |-> HandleError(t, "http_error").output_data,
     cost        |-> HandleError(t, "http_error").cost,
     status      |-> "error"]

\* the same effect of the call i as it ended
EffectOf(c, registry) ==
    [success     |-> c.resp.success,
     output_data |-> c.resp.output_data,
     cost        |-> c.resp.cost,
     status      |-> registry[c.request.tool_id].status]

\* C23: apart from its error message, a call of a built-in connector that
\* times out has the effect of a faulted call: success = false, empty
\* output_data, the same cost, the same connector status after the call
C23_TimeoutAsFault ==
    [][\A i \in DOMAIN calls :
         (Timeout(i) /\ calls[i].request.tool_id \in BuiltIn) =>
           EffectOf(calls'[i], tools') = FaultEffect(calls[i].request.tool_id)]_vars

\* what a timed-out call does share with a faulted one: a failed response
\* with empty output_data
C23_TimeoutFails ==
    [][\A i \in DOMAIN calls :
         Timeout(i) =>
           /\ ~calls'[i].resp.success
           /\ calls'[i].resp.output_data = EmptyMap
           /\ tools' = tools]_vars


(***************************************************************************)
(* C24: execute_orchestration returns whatever the connectors do.          *)
(***************************************************************************)
\* the step in which the call i is abandoned
Abandoned(i) ==
    /\ i \in DOMAIN calls
    /\ i \in DOMAIN calls'
    /\ ~calls[i].timedout
    /\ calls'[i].timedout

\* C24: every execute_orchestration call eventually returns a response, even
\* when no connector's execute ever completes: a pending call is abandoned
\* when its own timeout expires, and only then, the rate-limit sleep counting
\* in it; a parallel orchestration returns within one timeout, a sequential
\* one of N tools within N timeouts
C24_EventuallyReturns ==
    /\ InProgress ~> pc = "done"
    /\ [](pc = "parallel" => now <= request.timeout)
    /\ [](pc = "sequential" => now <= Len(request.tools) * request.timeout)
    /\ [][\A i \in 1..MaxTools :
            Abandoned(i) =>
              /\ calls[i].stage \in {"sleeping", "calling"}
              /\ now - trace[calls[i].k].start = request.timeout
              /\ calls'[i].resp = TimeoutResponse(calls[i].request.tool_id, request.timeout)]_vars

\* a sequential orchestration of two tools, neither of which ever answered,
\* has returned after two timeouts
C24_Witness ==
    /\ pc = "done"
    /\ request.strategy = "sequential"
    /\ Len(request.tools) = 2
    /\ Len(response.results) = 2
    /\ \A i \in 1..2 : response.results[i] = TimeoutResponse(request.tools[i], request.timeout)
    /\ response.total_execution_time = 2 * request.timeout


(***************************************************************************)
(* C25: what aggregated_output accounts for.                               *)
(***************************************************************************)
\* the failed responses of rs, in order
Failures(rs) == SelectSeq(rs, LAMBDA r : ~r.success)

\* the counts of the aggregation and its error list account for every
\* response of rs
Counted(out, rs) ==
    /\ out.total_tools = Len(rs)
    /\ out.total_tools = out.successful_tools + out.failed_tools
    /\ out.failed_tools = Len(Failures(rs))
    /\ Len(out.errors) = Len(Failures(rs))
    /\ \A i \in DOMAIN out.errors :
         /\ out.errors[i].tool_id = Failures(rs)[i].tool_id
         /\ out.errors[i].error = Failures(rs)[i].error_message

\* C25: aggregated_output accounts for every ToolResponse in results, also
\* when the tool list names a tool id more than once: the counts add up to
\* the number of results, the per-tool breakdown holds one entry for each
\* response, and the error list holds one entry per failed response, in
\* dispatch order
C25_Accounts ==
    Aggregated =>
      LET out == response.aggregated_output
          rs  == response.results
      IN /\ Counted(out, rs)
         /\ Cardinality(DOMAIN out.results_by_tool) = Len(rs)

\* what the breakdown holds instead: one entry for each tool id, that of the
\* id's last response
C25_OnePerToolId ==
    Aggregated =>
      LET out == response.aggregated_output
          rs  == response.results
      IN /\ Counted(out, rs)
         /\ DOMAIN out.results_by_tool = {rs[i].tool_id : i \in DOMAIN rs}
         /\ \A i \in DOMAIN rs :
              (\A j \in (i + 1)..Len(rs) : rs[j].tool_id # rs[i].tool_id) =>
                /\ out.results_by_tool[rs[i].tool_id].success = rs[i].success
                /\ out.results_by_tool[rs[i].tool_id].error = rs[i].error_message


(***************************************************************************)
(* C26: what the sibling calls of one orchestration write.                 *)
(***************************************************************************)
\* the step of the call i in which it writes its connector (its
\* _last_request_time or its status)
Writes(i) ==
    /\ i \in DOMAIN calls
    /\ i \in DOMAIN calls'
    /\ calls'[i].stage # calls[i].stage
    /\ calls[i].request.tool_id \in DOMAIN tools
    /\ tools'[calls[i].request.tool_id] # tools[calls[i].request.tool_id]

\* the call has started and has not ended: it runs concurrently
Running(c) == c.stage \in {"sleeping", "calling"}

\* C26: within one orchestration the concurrently running sibling calls write
\* no shared mutable state, also when two entries of the tool list name the
\* same tool id: no call writes a connector that a running sibling uses
C26_NoSharedWrites ==
    [][\A i \in 1..MaxTools :
         Writes(i) =>
           \A j \in DOMAIN calls \ {i} :
              Running(calls[j]) => calls[j].request.tool_id # calls[i].request.tool_id]_vars

\* a step of the call i: it starts, wakes, is answered or is abandoned
CallStep(i) ==
    /\ i \in DOMAIN calls
    /\ i \in DOMAIN calls'
    /\ calls'[i].stage # calls[i].stage
    /\ calls'[i].stage # "created"

\* what holds instead: a call writes no connector but its own, and neither
\* the results list nor the response
C26_OwnConnectorOnly ==
    [][\A i \in 1..MaxTools :
         CallStep(i) =>
           /\ \A u \in DOMAIN tools \ {calls[i].request.tool_id} : tools'[u] = tools[u]
           /\ \A j \in DOMAIN calls \ {i} : calls'[j] = calls[j]
           /\ results' = results
           /\ response' = response]_vars


(***************************************************************************)
(* C27: the status of a connector.                                         *)
(***************************************************************************)
\* the status of the connector t changes in the step, the connector staying
\* registered
StatusChanges(t) ==
    /\ t \in DOMAIN tools
    /\ t \in DOMAIN tools'
    /\ tools'[t].status # tools[t].status

\* the step is a call of update_status on t, or registers t anew
SetFromOutside(t) ==
    \/ \E st \in StatusUpdates : UpdateStatus(t, st)
    \/ ServerRegisterCustomTool(t)

\* the step in which an execute of the built-in connector t returns a failure
ReturnsFailure(t) ==
    \E i \in DOMAIN calls : calls[i].request.tool_id = t /\ FaultStep(i)

\* the request names a tool that is registered and not available
NamesUnavailable(req, registry) ==
    \E k \in DOMAIN req.tools :
       req.tools[k] \in DOMAIN registry /\ registry[req.tools[k]].status # "available"

\* C27: a connector's status leaves `available` only through its own error
\* path and is not set back by the engine or the facade: once an execute of a
\* built-in connector returns a failure the status is `error` until
\* update_status is called or the tool is registered again, every
\* orchestration naming the tool meanwhile fails validation and every
\* execute_tool on it is rejected as unavailable; a call abandoned by timeout
\* leaves the status as it is; no status is ever `busy`
C27_Status ==
    /\ [][\A t \in ServerTools :
            /\ (StatusChanges(t) /\ ~SetFromOutside(t)) =>
                 (tools'[t].status = "error" /\ ReturnsFailure(t))
            /\ ReturnsFailure(t) => tools'[t].status = "error"]_vars
    /\ [][\A req \in ServerRequests :
            (ServerExecuteOrchestration(req) /\ NamesUnavailable(req, tools')) =>
              /\ pc' = "done"
              /\ ~response'.success
              /\ response'.results = <<>>
              /\ response'.errors[1].text = "Unavailable tools"]_vars
    /\ [][\A treq \in ServerToolRequests :
            (/\ ExecuteTool(treq)
             /\ treq.tool_id \in DOMAIN tools'
             /\ tools'[treq.tool_id].status # "available") =>
              /\ pc' = "replied"
              /\ reply'.status = 503]_vars
    /\ [][\A i \in 1..MaxRunTools : (pc # "tool" /\ Timeout(i)) => tools' = tools]_vars
    /\ [](\A t \in DOMAIN tools : tools[t].status # "busy")

\* gemini failed on an invalid input in an earlier call, time has passed, and
\* an orchestration naming it has just been refused
C27_Witness ==
    /\ pc = "done"
    /\ initialized
    /\ "gemini" \in DOMAIN tools
    /\ tools["gemini"].status = "error"
    /\ tools["gemini"].age >= 1
    /\ request.tools = <<"gemini">>
    /\ request.input_data = [prompt |-> "str", action |-> "get_file"]
    /\ ~response.success
    /\ response.errors = <<[text |-> "Unavailable tools", ids |-> <<"gemini">>]>>


(***************************************************************************)
(* C28: registry calls on the facade and its lazy initialization.          *)
(***************************************************************************)
\* C28: registry calls made on the facade survive its lazy initialization in
\* any order: after unregister_tool(id) the id is not registered and
\* execute_tool on it is answered 404, until the id is registered again by a
\* caller, whether unregister_tool was called before the facade's first use or
\* after it; a connector registered with register_custom_tool stays
\* registered until unregister_tool is called on it
C28_RegistrySurvives ==
    /\ [](\A t \in absent : t \notin DOMAIN tools)
    /\ [][\A treq \in ServerToolRequests :
            (ExecuteTool(treq) /\ treq.tool_id \in absent) =>
              (pc' = "replied" /\ reply'.status = 404)]_vars
    /\ [][\A t \in Custom :
            (t \in DOMAIN tools /\ t \notin DOMAIN tools') => ServerUnregisterTool(t)]_vars

\* what does hold: once the facade is initialized, no step registers an id
\* whose last registry call was unregister_tool, and a custom connector stays
\* registered until unregister_tool is called on it
C28_AfterFirstUse ==
    /\ [][\A t \in ServerTools :
            (initialized /\ t \in absent' /\ t \in DOMAIN tools') =>
              (t \in absent /\ t \in DOMAIN tools)]_vars
    /\ [][\A t \in Custom :
            (t \in DOMAIN tools /\ t \notin DOMAIN tools') => ServerUnregisterTool(t)]_vars


(***************************************************************************)
(* C29: the hybrid strategy for every max_parallel.                        *)
(***************************************************************************)
\* the response of a hybrid orchestration
HybridDone == pc = "done" /\ request.strategy = "hybrid"

\* C29: under the hybrid strategy, for every integer max_parallel, zero and
\* the negative ones included, the response either has success = false with
\* a top-level error or has success = true with exactly one ToolResponse per
\* listed tool
C29_HybridAllOrError ==
    HybridDone =>
      \/ ~response.success /\ response.errors # <<>>
      \/ response.success /\ OnePerListedTool(response.results, request.tools)

\* the same for the values of max_parallel that are not negative
C29_HybridNotNegative ==
    (HybridDone /\ request.max_parallel >= 0) =>
      \/ ~response.success /\ response.errors # <<>>
      \/ response.success /\ OnePerListedTool(response.results, request.tools)


(***************************************************************************)
(* C30: the ToolRequest of a dispatched call.                              *)
(***************************************************************************)
\* the ToolRequest of a call carries the orchestration's input_data and
\* context, context["parameters"] or the empty map, context["priority"] or 1
Carries(r, req) ==
    /\ r.input_data = req.input_data
    /\ r.context = req.context
    /\ r.parameters = (IF "parameters" \in DOMAIN req.context
                       THEN req.context["parameters"] ELSE EmptyMap)
    /\ r.priority = (IF "priority" \in DOMAIN req.context
                     THEN req.context["priority"] ELSE 1)

\* the template a request was built from
TemplateOf(req) == BuiltInTemplates[req.workflow_id.template_id]

\* the template's defaults are in the context of the call and not in its
\* parameters
DefaultsInContextOnly(r, template) ==
    /\ \A k \in DOMAIN template.parameters :
         /\ k \in DOMAIN r.context
         /\ k \notin DOMAIN r.parameters
    /\ "parameters" \notin DOMAIN r.context => r.parameters = EmptyMap

\* the calls were dispatched in the order of the tool list
InListOrder ==
    /\ Len(trace) <= Len(request.tools)
    /\ \A k \in 1..Len(trace) : trace[k].tool_id = request.tools[k]
    /\ \A k \in 1..Len(trace) - 1 : trace[k].start <= trace[k + 1].start

\* C30: every ToolRequest the engine builds for a dispatched call carries the
\* orchestration's input_data and context unchanged, parameters equal to
\* context["parameters"] when the key is present and the empty map otherwise,
\* and priority equal to context["priority"] when present and 1 otherwise; the
\* default parameters of a workflow template reach a connector in
\* ToolRequest.context and never in ToolRequest.parameters, and the calls are
\* dispatched in the order of the tool list whatever the priority
C30_ToolRequest ==
    /\ \A i \in DOMAIN calls :
         /\ Carries(calls[i].request, request)
         /\ DefaultsInContextOnly(calls[i].request, TemplateOf(request))
    /\ trace # <<>> => InListOrder

\* a template run called with a priority and no parameters has two calls in
\* flight: the template's temperature is in their context, their parameters
\* are empty, and they stand in the order of the template's tool list
C30_Witness ==
    /\ pc = "parallel"
    /\ Len(calls) = 2
    /\ request.tools = BuiltInTemplates["ideation_workflow"].tools
    /\ \A i \in DOMAIN calls :
         /\ calls[i].issued
         /\ calls[i].request.priority = 5
         /\ calls[i].request.parameters = EmptyMap
         /\ calls[i].request.context = [temperature |-> "0.8", max_tokens |-> "2048",
                                        priority |-> 5]
    /\ trace[1].tool_id = "gemini"
    /\ trace[2].tool_id = "openai"

====
